---- MODULE Spec2Model ----
(***************************************************************************)
(* Hydentity withdrawal-plan state machine: the plan generator             *)
(* (encrypted-ixs/generate_plan.rs) and the plan executor                  *)
(* (encrypted-ixs/execute_split.rs).                                       *)
(*                                                                         *)
(* u64 values are kept modulo 2^64.  TLC integers are 32 bits wide, so a   *)
(* u64 value v is held by its representative in (-2^31, 2^31): v itself    *)
(* when v is small, and v - 2^64 (a negative number) when a subtraction    *)
(* wrapped below zero.  Addition and subtraction of representatives are    *)
(* addition and subtraction modulo 2^64; U64Lt is the unsigned order.      *)
(* Rust arithmetic overflow either aborts the instruction (a build with    *)
(* overflow checks) or wraps (a build without); both outcomes are kept.    *)
(***************************************************************************)
EXTENDS Integers, Sequences, FiniteSets, TLC

VARIABLES config, plan, now, call, result,
          next_split, \* what the last call returned, if it was get_next_split
          reply,      \* what the last call returned, if it was a query or a
                      \* configuration operation
          accepted,  \* history: the split indexes of the current plan for which
                     \* execute_withdrawal_split has returned success
          chain      \* the on-chain accounts: vault (NameVault), policy
                     \* (PrivacyPolicy) and withdrawal (PendingWithdrawal)

vars == <<config, plan, now, call, result, next_split, reply, accepted, chain>>

-----------------------------------------------------------------------------
(* Program constants *)

MAX_SPLITS == 5

MAX_DESTINATIONS == 5

DUST_THRESHOLD == 10000

SPLIT_HEADROOM == 1000

GRACE_SECONDS == 60

EXPIRY_SECONDS == 604800

U8_MODULUS == 256

HISTORY_SLOTS == 10

\* the global floor and ceiling of the delays (types.rs)
MIN_DELAY_FLOOR_SECONDS == 60

MAX_DELAY_CEILING_SECONDS == 86400

KEY_LEN == 32

-----------------------------------------------------------------------------
(* Bounds of the model *)

\* plan creation time (the clock's first value)
Epoch == 100000

\* Confirm is explored while executed_count is below this value (Spec only)
MaxExecutedCount == 3

\* the small totals of SpecSmall go up to this many thousands
MaxSmallThousands == 40

\* SpecConfig explores configuration operations on versions below this one
MaxConfigVersion == 3

\* RecordDeposit is explored while deposit_count is below this
MaxDeposits == 2

\* RecordDeposit is explored while total_sol_received is below this
MaxDepositTotal == 8

\* UpdatePolicy is explored while policy_nonce is below this
MaxPolicyNonce == 2

-----------------------------------------------------------------------------
(* Byte arrays *)

Key(b) == [i \in 0..(KEY_LEN - 1) |-> b]

\* a key equal to k except in byte position pos
KeyWith(k, pos, b) == [k EXCEPT ![pos] = b]

ZeroKey == Key(0)

\* a transaction signature is opaque to the program, which only stores it:
\* 0 stands for the all-zero signature [0u8; 64], other numbers for signatures
\* of broadcast transactions
ZeroSig == 0

-----------------------------------------------------------------------------
(* u64 arithmetic on representatives *)

\* unsigned a < b
U64Lt(a, b) == IF (a < 0) = (b < 0) THEN a < b ELSE b < 0

\* a - b borrows (goes below zero as u64)
U64SubUnderflows(a, b) == U64Lt(a, b)

\* a + b carries (exceeds 2^64 - 1 as u64)
U64AddOverflows(a, b) ==
    \/ a < 0 /\ b < 0
    \/ a < 0 /\ b >= 0 /\ a + b >= 0
    \/ b < 0 /\ a >= 0 /\ a + b >= 0

-----------------------------------------------------------------------------
(* Plan generator: generate_plan.rs *)

SplitIndexes == 0..(MAX_SPLITS - 1)

DestinationIndexes == 0..(MAX_DESTINATIONS - 1)

\* generate_random_split_count with the offset taken modulo range + 1
generate_random_split_count_wide(min_splits, max_splits, random) ==
    LET range  == (max_splits - min_splits + 1) % U8_MODULUS
        offset == (random % U8_MODULUS) % (range + 1)
    IN  (min_splits + offset) % U8_MODULUS

\* generate_random_split_count: random is the 8-bit draw
generate_random_split_count(min_splits, max_splits, random) ==
    LET range  == (max_splits - min_splits + 1) % U8_MODULUS
        offset == (random % U8_MODULUS) % range
    IN  (min_splits + offset) % U8_MODULUS

\* one iteration of the loop of generate_split_amounts for a split that is
\* not the last one; acc = [amounts, remaining, overflow], random the 16-bit draw
split_amount_step(acc, i, count, base_amount, perturbation_range, random) ==
    LET perturbation == (random % (perturbation_range * 2 + 1)) - perturbation_range
        drawn        == base_amount + perturbation
        reserve      == (count - i - 1) * SPLIT_HEADROOM
        ceiling      == acc.remaining - reserve
        capped       == IF U64Lt(ceiling, drawn) THEN ceiling ELSE drawn
        split_amount == IF U64Lt(capped, DUST_THRESHOLD) THEN DUST_THRESHOLD ELSE capped
    IN  [amounts   |-> [acc.amounts EXCEPT ![i] = split_amount],
         remaining |-> acc.remaining - split_amount,
         overflow  |-> \/ acc.overflow
                       \/ U64SubUnderflows(acc.remaining, reserve)
                       \/ U64SubUnderflows(acc.remaining, split_amount)]

RECURSIVE split_amounts_loop(_, _, _, _, _, _)
split_amounts_loop(acc, i, count, base_amount, perturbation_range, draws) ==
    IF i >= count THEN acc
    ELSE IF i = count - 1
         THEN \* last split gets whatever remains
              [acc EXCEPT !.amounts[i] = acc.remaining]
         ELSE split_amounts_loop(
                  split_amount_step(acc, i, count, base_amount, perturbation_range, draws[i]),
                  i + 1, count, base_amount, perturbation_range, draws)

\* generate_split_amounts: draws[i] is the 16-bit draw of split i, idx_draw the
\* 8-bit draw that picks the split receiving the remainder.
\* Returns [amounts, overflow]: the amounts with wrapping arithmetic, and
\* whether some u64 operation overflowed on the way.
generate_split_amounts(total, split_count, draws, idx_draw) ==
    LET zero  == [i \in SplitIndexes |-> 0]
        count == split_count
    IN  IF count = 0 \/ count > MAX_SPLITS
        THEN [amounts |-> zero, overflow |-> FALSE]
        ELSE LET base_amount        == total \div count
                 remainder          == total % count
                 perturbation_range == base_amount \div 5
                 looped == split_amounts_loop(
                               [amounts |-> zero, remaining |-> total, overflow |-> FALSE],
                               0, count, base_amount, perturbation_range, draws)
                 random_idx == idx_draw % count
             IN  IF remainder > 0
                 THEN [amounts  |-> [looped.amounts EXCEPT
                                        ![random_idx] = looped.amounts[random_idx] + remainder],
                       overflow |-> \/ looped.overflow
                                    \/ U64AddOverflows(looped.amounts[random_idx], remainder)]
                 ELSE [amounts |-> looped.amounts, overflow |-> looped.overflow]

\* generate_split_delays reducing the draw modulo max_delay + 1 instead of
\* range + 1
generate_split_delays_wide(split_count, min_delay, max_delay, draws) ==
    [i \in SplitIndexes |->
        IF i < split_count THEN min_delay + (draws[i] % (max_delay + 1)) ELSE 0]

\* generate_split_delays: draws[i] is the 32-bit draw of split i
generate_split_delays(split_count, min_delay, max_delay, draws) ==
    LET range == max_delay - min_delay
    IN  [i \in SplitIndexes |->
            IF i < split_count THEN min_delay + (draws[i] % (range + 1)) ELSE 0]

\* shuffle_indices copying indices[j] to position i without the swap
RECURSIVE shuffle_indices_overwrite(_, _, _)
shuffle_indices_overwrite(indices, i, draws) ==
    IF i < 1 THEN indices
    ELSE LET j == draws[i] % (i + 1)
         IN  shuffle_indices_overwrite([indices EXCEPT ![i] = indices[j]], i - 1, draws)

\* the Fisher-Yates loop of select_destinations, i running from avail - 1 down to 1;
\* draws[i] is the 8-bit draw used at position i
RECURSIVE shuffle_indices(_, _, _)
shuffle_indices(indices, i, draws) ==
    IF i < 1 THEN indices
    ELSE LET j == draws[i] % (i + 1)
         IN  shuffle_indices([indices EXCEPT ![i] = indices[j], ![j] = indices[i]],
                             i - 1, draws)

\* select_destinations
select_destinations(available, available_count, needed_count, draws) ==
    IF available_count = 0 \/ needed_count = 0
    THEN [i \in SplitIndexes |-> ZeroKey]
    ELSE LET indices == shuffle_indices([k \in DestinationIndexes |-> k],
                                        available_count - 1, draws)
         IN  [i \in SplitIndexes |->
                 IF i < needed_count THEN available[indices[i % available_count]]
                 ELSE ZeroKey]

\* i64::to_le_bytes for a non-negative timestamp
RECURSIVE le_byte(_, _)
le_byte(value, k) == IF k = 0 THEN value % 256 ELSE le_byte(value \div 256, k - 1)

\* generate_plan_id with the timestamp bytes in big-endian order
generate_plan_id_big_endian(user_random, timestamp) ==
    [i \in 0..15 |-> IF i < 8 THEN user_random[i] ELSE le_byte(timestamp, 15 - i)]

\* generate_plan_id
generate_plan_id(user_random, timestamp) ==
    [i \in 0..15 |-> IF i < 8 THEN user_random[i] ELSE le_byte(timestamp, i - 8)]

\* cumulative_delay without the accumulation: the delay of split i alone
delay_of_split(delays, i) == IF i < 0 THEN 0 ELSE delays[i]

\* cumulative_delay after the iteration of split i in generate_withdrawal_plan
RECURSIVE cumulative_delay(_, _)
cumulative_delay(delays, i) ==
    IF i < 0 THEN 0 ELSE cumulative_delay(delays, i - 1) + delays[i]

\* SplitDetail::default()
DefaultSplit ==
    [destination |-> ZeroKey, amount |-> 0, delay_seconds |-> 0,
     scheduled_at |-> 0, executed_at |-> 0, tx_signature |-> ZeroSig]

\* WithdrawalPlan::default()
DefaultPlan ==
    [plan_id |-> [i \in 0..15 |-> 0], vault_pubkey |-> ZeroKey, total_amount |-> 0,
     split_count |-> 0, splits |-> [i \in SplitIndexes |-> DefaultSplit],
     executed_count |-> 0, status |-> "Pending", created_at |-> 0, expires_at |-> 0]

\* generate_withdrawal_plan; rng holds the draws of the MPC random generator:
\* rng.count (8 bits), rng.amount[i] (16 bits), rng.idx (8 bits),
\* rng.delay[i] (32 bits), rng.shuffle[i] (8 bits).
\* Returns [plan, overflow].
generate_withdrawal_plan(cfg, amount_lamports, user_random, current_timestamp, rng) ==
    LET split_count  == generate_random_split_count(cfg.min_splits, cfg.max_splits, rng.count)
        generated    == generate_split_amounts(amount_lamports, split_count, rng.amount, rng.idx)
        amounts      == generated.amounts
        delays       == generate_split_delays(split_count, cfg.min_delay_seconds,
                                              cfg.max_delay_seconds, rng.delay)
        destinations == select_destinations(cfg.destinations, cfg.destination_count,
                                            split_count, rng.shuffle)
    IN  [plan |->
            [DefaultPlan EXCEPT
                !.plan_id      = generate_plan_id(user_random, current_timestamp),
                !.vault_pubkey = cfg.owner_pubkey,
                !.total_amount = amount_lamports,
                !.split_count  = split_count,
                !.created_at   = current_timestamp,
                !.expires_at   = current_timestamp + EXPIRY_SECONDS,
                !.status       = "Pending",
                !.splits       = [i \in SplitIndexes |->
                                    IF i < split_count
                                    THEN [destination   |-> destinations[i],
                                          amount        |-> amounts[i],
                                          delay_seconds |-> delays[i],
                                          scheduled_at  |-> current_timestamp
                                                            + cumulative_delay(delays, i),
                                          executed_at   |-> 0,
                                          tx_signature  |-> ZeroSig]
                                    ELSE DefaultSplit]],
         overflow |-> generated.overflow]

\* what get_next_split starts from: (found, next_index, wait_until)
NoNextSplit == [found |-> FALSE, next_index |-> 0, wait_until |-> 0]

\* the loop of get_next_split without its break: it goes on to later splits
RECURSIVE next_split_loop_no_break(_, _, _, _)
next_split_loop_no_break(p, current_timestamp, i, acc) ==
    IF i >= p.split_count \/ i >= MAX_SPLITS THEN acc
    ELSE LET split == p.splits[i]
         IN  IF split.executed_at = 0
             THEN IF split.scheduled_at <= current_timestamp
                  THEN next_split_loop_no_break(p, current_timestamp, i + 1,
                           [acc EXCEPT !.found = TRUE, !.next_index = i])
                  ELSE IF ~acc.found
                  THEN next_split_loop_no_break(p, current_timestamp, i + 1,
                           [acc EXCEPT !.wait_until = split.scheduled_at])
                  ELSE next_split_loop_no_break(p, current_timestamp, i + 1, acc)
             ELSE next_split_loop_no_break(p, current_timestamp, i + 1, acc)

\* get_next_split returning the last ready split instead of the first
get_next_split_last_ready(p, current_timestamp) ==
    next_split_loop_no_break(p, current_timestamp, 0, NoNextSplit)

\* the loop of get_next_split from split i on; acc = (found, next_index, wait_until)
RECURSIVE next_split_loop(_, _, _, _)
next_split_loop(p, current_timestamp, i, acc) ==
    IF i >= p.split_count \/ i >= MAX_SPLITS THEN acc
    ELSE LET split == p.splits[i]
         IN  IF split.executed_at = 0
             THEN IF split.scheduled_at <= current_timestamp
                  THEN \* ready to execute: break
                       [acc EXCEPT !.found = TRUE, !.next_index = i]
                  ELSE IF ~acc.found
                  THEN next_split_loop(p, current_timestamp, i + 1,
                           [acc EXCEPT !.wait_until = split.scheduled_at])
                  ELSE next_split_loop(p, current_timestamp, i + 1, acc)
             ELSE next_split_loop(p, current_timestamp, i + 1, acc)

\* get_next_split: (found, next_index, wait_until)
get_next_split(p, current_timestamp) ==
    next_split_loop(p, current_timestamp, 0, NoNextSplit)

-----------------------------------------------------------------------------
(* Plan executor: execute_split.rs *)

\* the WithdrawalExecution that execute_withdrawal_split starts from
EmptyExecution ==
    [destination |-> ZeroKey, amount |-> 0, tx_signature |-> ZeroSig,
     executed_at |-> 0, success |-> FALSE, error_code |-> 0]

\* the expiry check of execute_withdrawal_split
plan_expired(p, current_timestamp) == current_timestamp > p.expires_at

\* too_early with the grace period after the schedule instead of before it
too_early_grace_after(split, current_timestamp) ==
    current_timestamp < split.scheduled_at + GRACE_SECONDS

\* too_early with the boundary scheduled_at - 60 itself refused
too_early_at_boundary(split, current_timestamp) ==
    current_timestamp <= split.scheduled_at - GRACE_SECONDS

\* the schedule check of execute_withdrawal_split (60 second grace period)
too_early(split, current_timestamp) ==
    current_timestamp < split.scheduled_at - GRACE_SECONDS

\* execute_withdrawal_split with the expiry check made before the
\* already-executed check
execute_withdrawal_split_expiry_first(p, split_index, current_timestamp, vault_balance) ==
    IF split_index >= p.split_count \/ split_index >= MAX_SPLITS
    THEN [EmptyExecution EXCEPT !.error_code = 1]
    ELSE LET split == p.splits[split_index]
         IN  IF plan_expired(p, current_timestamp)
             THEN [EmptyExecution EXCEPT !.error_code = 3]
             ELSE IF split.executed_at # 0
             THEN [EmptyExecution EXCEPT !.error_code = 2]
             ELSE IF too_early(split, current_timestamp)
             THEN [EmptyExecution EXCEPT !.error_code = 4]
             ELSE IF U64Lt(vault_balance, split.amount)
             THEN [EmptyExecution EXCEPT !.error_code = 5]
             ELSE [EmptyExecution EXCEPT
                      !.destination = split.destination,
                      !.amount      = split.amount,
                      !.executed_at = current_timestamp,
                      !.success     = TRUE,
                      !.error_code  = 0]

\* execute_withdrawal_split: the revealed WithdrawalExecution
execute_withdrawal_split(p, split_index, current_timestamp, vault_balance) ==
    IF split_index >= p.split_count \/ split_index >= MAX_SPLITS
    THEN [EmptyExecution EXCEPT !.error_code = 1]
    ELSE LET split == p.splits[split_index]
         IN  IF split.executed_at # 0
             THEN [EmptyExecution EXCEPT !.error_code = 2]
             ELSE IF plan_expired(p, current_timestamp)
             THEN [EmptyExecution EXCEPT !.error_code = 3]
             ELSE IF too_early(split, current_timestamp)
             THEN [EmptyExecution EXCEPT !.error_code = 4]
             ELSE IF U64Lt(vault_balance, split.amount)
             THEN [EmptyExecution EXCEPT !.error_code = 5]
             ELSE [EmptyExecution EXCEPT
                      !.destination = split.destination,
                      !.amount      = split.amount,
                      !.executed_at = current_timestamp,
                      !.success     = TRUE,
                      !.error_code  = 0]

\* the u8 increment of executed_count overflows
executed_count_overflows(p, split_index) ==
    /\ split_index < p.split_count
    /\ split_index < MAX_SPLITS
    /\ p.executed_count + 1 >= U8_MODULUS

\* mark_split_executed writing a fresh split record instead of updating the
\* two fields of the stored one
mark_split_executed_fresh_split(p, split_index, tx_signature, executed_at) ==
    IF split_index < p.split_count /\ split_index < MAX_SPLITS
    THEN LET executed_count == (p.executed_count + 1) % U8_MODULUS
         IN  [p EXCEPT
                 !.splits[split_index] = [DefaultSplit EXCEPT
                                             !.executed_at  = executed_at,
                                             !.tx_signature = tx_signature],
                 !.executed_count = executed_count,
                 !.status = IF executed_count >= p.split_count
                            THEN "Completed" ELSE "InProgress"]
    ELSE p

\* mark_split_executed never reporting Completed
mark_split_executed_in_progress(p, split_index, tx_signature, executed_at) ==
    IF split_index < p.split_count /\ split_index < MAX_SPLITS
    THEN [p EXCEPT
             !.splits[split_index].executed_at  = executed_at,
             !.splits[split_index].tx_signature = tx_signature,
             !.executed_count = (p.executed_count + 1) % U8_MODULUS,
             !.status = "InProgress"]
    ELSE p

\* mark_split_executed, with wrapping u8 arithmetic: the updated plan
mark_split_executed(p, split_index, tx_signature, executed_at) ==
    IF split_index < p.split_count /\ split_index < MAX_SPLITS
    THEN LET executed_count == (p.executed_count + 1) % U8_MODULUS
         IN  [p EXCEPT
                 !.splits[split_index].executed_at  = executed_at,
                 !.splits[split_index].tx_signature = tx_signature,
                 !.executed_count = executed_count,
                 !.status = IF executed_count >= p.split_count
                            THEN "Completed" ELSE "InProgress"]
    ELSE p

\* cancel_withdrawal_plan with the comparison stopping after the first byte
cancel_withdrawal_plan_first_byte(p, owner, cfg) ==
    LET owner_matches == owner[0] = cfg.owner_pubkey[0]
    IN  IF owner_matches /\ p.status # "Completed"
        THEN [p EXCEPT !.status = "Cancelled"]
        ELSE p

\* cancel_withdrawal_plan: the updated plan
cancel_withdrawal_plan(p, owner, cfg) ==
    LET owner_matches == \A i \in 0..(KEY_LEN - 1) : owner[i] = cfg.owner_pubkey[i]
    IN  IF owner_matches /\ p.status # "Completed"
        THEN [p EXCEPT !.status = "Cancelled"]
        ELSE p

-----------------------------------------------------------------------------
(* Queries: query_balance.rs *)

NoPlan == [status |-> "None"]

\* no query or configuration operation has returned
NoReply == [op |-> "none"]

\* the plan counts as pending
plan_is_active(p) == p.status = "Pending" \/ p.status = "InProgress"

\* pending_split_counted with executed splits counted as well
pending_split_counted_always(split) == TRUE

\* the test that adds a split to the pending amount
pending_split_counted(split) == split.executed_at = 0

\* the loop of query_encrypted_balance over the splits from i on;
\* acc = [pending_amount, pending_splits, overflow]
RECURSIVE pending_loop(_, _, _)
pending_loop(p, i, acc) ==
    IF i >= p.split_count \/ i >= MAX_SPLITS THEN acc
    ELSE LET split == p.splits[i]
         IN  IF pending_split_counted(split)
             THEN pending_loop(p, i + 1,
                      [pending_amount |-> acc.pending_amount + split.amount,
                       pending_splits |-> acc.pending_splits + 1,
                       overflow       |-> \/ acc.overflow
                                          \/ U64AddOverflows(acc.pending_amount, split.amount)])
             ELSE pending_loop(p, i + 1, acc)

\* available_balance without the comparison
available_balance_unguarded(current_balance, pending_amount) ==
    current_balance - pending_amount

\* the available balance of query_encrypted_balance
available_balance(current_balance, pending_amount) ==
    IF U64Lt(pending_amount, current_balance)
    THEN current_balance - pending_amount
    ELSE 0

\* query_encrypted_balance; plan_opt = NoPlan is None.
\* Returns [info, overflow]: the BalanceInfo and whether the sum overflowed.
query_encrypted_balance(current_balance, plan_opt, current_timestamp) ==
    LET zero    == [pending_amount |-> 0, pending_splits |-> 0, overflow |-> FALSE]
        pending == IF plan_opt # NoPlan /\ plan_is_active(plan_opt)
                   THEN pending_loop(plan_opt, 0, zero)
                   ELSE zero
    IN  [info |-> [balance             |-> current_balance,
                   pending_withdrawals |-> pending.pending_amount,
                   available           |-> available_balance(current_balance,
                                                             pending.pending_amount),
                   pending_split_count |-> pending.pending_splits,
                   queried_at          |-> current_timestamp],
         overflow |-> pending.overflow]

\* the slots of the arrays of query_withdrawal_history
HistoryIndexes == 0..(HISTORY_SLOTS - 1)

\* WithdrawalHistoryEntry::default()
DefaultHistoryEntry ==
    [plan_id |-> [i \in 0..15 |-> 0], total_amount |-> 0, split_count |-> 0,
     created_at |-> 0, completed_at |-> 0]

\* get_completion_time: the latest executed_at of the splits below n
RECURSIVE completion_loop(_, _)
completion_loop(p, n) ==
    IF n = 0 THEN 0
    ELSE LET latest   == completion_loop(p, n - 1)
             executed == p.splits[n - 1].executed_at
         IN  IF executed > latest THEN executed ELSE latest

get_completion_time(p) ==
    completion_loop(p, IF p.split_count < MAX_SPLITS THEN p.split_count ELSE MAX_SPLITS)

\* history_full with the output taking one entry more than the limit
history_full_late(count, limit) == count > limit

\* the test that ends the loop of query_withdrawal_history
history_full(count, limit) == count >= limit

\* the loop of query_withdrawal_history from slot i on; acc = [history, count]
RECURSIVE history_loop(_, _, _, _)
history_loop(plans, limit, i, acc) ==
    IF i >= HISTORY_SLOTS \/ history_full(acc.count, limit) THEN acc
    ELSE IF plans[i] # NoPlan /\ plans[i].status = "Completed"
    THEN history_loop(plans, limit, i + 1,
             [history |-> [acc.history EXCEPT ![acc.count] =
                              [plan_id      |-> plans[i].plan_id,
                               total_amount |-> plans[i].total_amount,
                               split_count  |-> plans[i].split_count,
                               created_at   |-> plans[i].created_at,
                               completed_at |-> get_completion_time(plans[i])]],
              count   |-> acc.count + 1])
    ELSE history_loop(plans, limit, i + 1, acc)

\* query_withdrawal_history: the array of HISTORY_SLOTS entries
query_withdrawal_history(plans, limit) ==
    history_loop(plans, limit, 0,
                 [history |-> [k \in HistoryIndexes |-> DefaultHistoryEntry],
                  count   |-> 0]).history

-----------------------------------------------------------------------------
(* Configuration: store_config.rs and update_config.rs *)

\* the validation of store_private_config without the delay ceiling
config_is_valid_no_ceiling(cfg) ==
    /\ ~(cfg.destination_count = 0 \/ cfg.destination_count > MAX_DESTINATIONS)
    /\ ~(cfg.min_splits = 0 \/ cfg.min_splits > cfg.max_splits \/ cfg.max_splits > MAX_SPLITS)
    /\ ~(cfg.min_delay_seconds < MIN_DELAY_FLOOR_SECONDS)
    /\ ~(cfg.min_delay_seconds > cfg.max_delay_seconds)

\* is_valid of store_private_config
config_is_valid(cfg) ==
    /\ ~(cfg.destination_count = 0 \/ cfg.destination_count > MAX_DESTINATIONS)
    /\ ~(cfg.min_splits = 0 \/ cfg.min_splits > cfg.max_splits \/ cfg.max_splits > MAX_SPLITS)
    /\ ~(cfg.min_delay_seconds < MIN_DELAY_FLOOR_SECONDS)
    /\ ~(cfg.max_delay_seconds > MAX_DELAY_CEILING_SECONDS)
    /\ ~(cfg.min_delay_seconds > cfg.max_delay_seconds)

\* compute_config_hash
compute_config_hash(cfg) ==
    LET mixed == IF cfg.destination_count < MAX_DESTINATIONS
                 THEN cfg.destination_count ELSE MAX_DESTINATIONS
    IN  [i \in 0..(KEY_LEN - 1) |->
            IF i = 0 THEN cfg.version
            ELSE IF i = 1 THEN cfg.destination_count
            ELSE IF i = 2 THEN cfg.min_splits
            ELSE IF i = 3 THEN cfg.max_splits
            ELSE IF i \in 4..7 THEN le_byte(cfg.min_delay_seconds, i - 4)
            ELSE IF i \in 8..11 THEN le_byte(cfg.max_delay_seconds, i - 8)
            ELSE IF i = 12 THEN (IF cfg.auto_withdraw_enabled THEN 1 ELSE 0)
            ELSE IF i >= 24 THEN cfg.owner_pubkey[i - 24]
            ELSE IF i - 13 < mixed THEN cfg.destinations[i - 13][0]
            ELSE 0]

\* store_private_config: the ConfigStorageResult
store_private_config(cfg, current_slot) ==
    [success        |-> config_is_valid(cfg),
     config_hash    |-> compute_config_hash(cfg),
     stored_at_slot |-> current_slot]

\* verify_config_hash comparing all bytes but the last
verify_config_hash_short(cfg, expected_hash) ==
    LET actual_hash == compute_config_hash(cfg)
    IN  \A i \in 0..(KEY_LEN - 2) : actual_hash[i] = expected_hash[i]

\* verify_config_hash
verify_config_hash(cfg, expected_hash) ==
    LET actual_hash == compute_config_hash(cfg)
    IN  \A i \in 0..(KEY_LEN - 1) : actual_hash[i] = expected_hash[i]

\* the owner check of the update operations
owner_matches(cfg, owner) == \A i \in 0..(KEY_LEN - 1) : cfg.owner_pubkey[i] = owner[i]

\* an UpdateConfigResult that refuses the operation
Refused(cfg, error_code) ==
    [success |-> FALSE, new_config |-> cfg, error_code |-> error_code, overflow |-> FALSE]

\* the metadata update and the UpdateConfigResult of an accepted operation;
\* overflow: version += 1 overflowed the u8
Accepted(cfg, current_timestamp) ==
    [success    |-> TRUE,
     new_config |-> [cfg EXCEPT !.updated_at = current_timestamp,
                                !.version = (cfg.version + 1) % U8_MODULUS],
     error_code |-> 0,
     overflow   |-> cfg.version + 1 >= U8_MODULUS]

\* Option values: None and Some(v)
None == <<>>

Some(v) == <<v>>

\* apply_updates refusing the whole patch when one of its fields is refused
apply_updates_all_or_nothing(cfg, upd) ==
    LET bad_count == /\ upd.new_destination_count # None
                     /\ ~(/\ upd.new_destination_count[1] > 0
                          /\ upd.new_destination_count[1] <= MAX_DESTINATIONS)
        bad_min == /\ upd.new_min_splits # None
                   /\ ~(/\ upd.new_min_splits[1] > 0
                        /\ upd.new_min_splits[1] <= cfg.max_splits)
        bad_max == /\ upd.new_max_splits # None
                   /\ ~(/\ upd.new_max_splits[1] >= cfg.min_splits
                        /\ upd.new_max_splits[1] <= MAX_SPLITS)
        bad_min_delay == /\ upd.new_min_delay_seconds # None
                         /\ ~(/\ upd.new_min_delay_seconds[1] >= MIN_DELAY_FLOOR_SECONDS
                              /\ upd.new_min_delay_seconds[1] <= cfg.max_delay_seconds)
        bad_max_delay == /\ upd.new_max_delay_seconds # None
                         /\ ~(/\ upd.new_max_delay_seconds[1] >= cfg.min_delay_seconds
                              /\ upd.new_max_delay_seconds[1] <= MAX_DELAY_CEILING_SECONDS)
        pick(field, opt) == IF opt # None THEN opt[1] ELSE field
    IN  IF bad_count \/ bad_min \/ bad_max \/ bad_min_delay \/ bad_max_delay THEN cfg
        ELSE [cfg EXCEPT
                !.destinations = pick(@, upd.new_destinations),
                !.destination_count = pick(@, upd.new_destination_count),
                !.min_splits = pick(@, upd.new_min_splits),
                !.max_splits = pick(@, upd.new_max_splits),
                !.min_delay_seconds = pick(@, upd.new_min_delay_seconds),
                !.max_delay_seconds = pick(@, upd.new_max_delay_seconds),
                !.auto_withdraw_enabled = pick(@, upd.new_auto_withdraw_enabled),
                !.auto_withdraw_threshold = pick(@, upd.new_auto_withdraw_threshold)]

\* the patches of update_private_config applied in the order of the code
apply_updates(cfg, upd) ==
    LET c1 == IF upd.new_destinations # None
              THEN [cfg EXCEPT !.destinations = upd.new_destinations[1]] ELSE cfg
        c2 == IF /\ upd.new_destination_count # None
                 /\ upd.new_destination_count[1] > 0
                 /\ upd.new_destination_count[1] <= MAX_DESTINATIONS
              THEN [c1 EXCEPT !.destination_count = upd.new_destination_count[1]] ELSE c1
        c3 == IF /\ upd.new_min_splits # None
                 /\ upd.new_min_splits[1] > 0
                 /\ upd.new_min_splits[1] <= c2.max_splits
              THEN [c2 EXCEPT !.min_splits = upd.new_min_splits[1]] ELSE c2
        c4 == IF /\ upd.new_max_splits # None
                 /\ upd.new_max_splits[1] >= c3.min_splits
                 /\ upd.new_max_splits[1] <= MAX_SPLITS
              THEN [c3 EXCEPT !.max_splits = upd.new_max_splits[1]] ELSE c3
        c5 == IF /\ upd.new_min_delay_seconds # None
                 /\ upd.new_min_delay_seconds[1] >= MIN_DELAY_FLOOR_SECONDS
                 /\ upd.new_min_delay_seconds[1] <= c4.max_delay_seconds
              THEN [c4 EXCEPT !.min_delay_seconds = upd.new_min_delay_seconds[1]] ELSE c4
        c6 == IF /\ upd.new_max_delay_seconds # None
                 /\ upd.new_max_delay_seconds[1] >= c5.min_delay_seconds
                 /\ upd.new_max_delay_seconds[1] <= MAX_DELAY_CEILING_SECONDS
              THEN [c5 EXCEPT !.max_delay_seconds = upd.new_max_delay_seconds[1]] ELSE c5
        c7 == IF upd.new_auto_withdraw_enabled # None
              THEN [c6 EXCEPT !.auto_withdraw_enabled = upd.new_auto_withdraw_enabled[1]]
              ELSE c6
    IN  IF upd.new_auto_withdraw_threshold # None
        THEN [c7 EXCEPT !.auto_withdraw_threshold = upd.new_auto_withdraw_threshold[1]]
        ELSE c7

\* update_private_config
update_private_config(cfg, upd, owner, current_timestamp) ==
    IF ~owner_matches(cfg, owner) THEN Refused(cfg, 1)
    ELSE Accepted(apply_updates(cfg, upd), current_timestamp)

\* add_destination without the check of the destination limit
add_destination_no_limit(cfg, new_destination, owner, current_timestamp) ==
    IF ~owner_matches(cfg, owner) THEN Refused(cfg, 1)
    ELSE Accepted([cfg EXCEPT !.destinations[cfg.destination_count] = new_destination,
                              !.destination_count = cfg.destination_count + 1],
                  current_timestamp)

\* add_destination
add_destination(cfg, new_destination, owner, current_timestamp) ==
    IF ~owner_matches(cfg, owner) THEN Refused(cfg, 1)
    ELSE IF cfg.destination_count >= MAX_DESTINATIONS THEN Refused(cfg, 2)
    ELSE Accepted([cfg EXCEPT !.destinations[cfg.destination_count] = new_destination,
                              !.destination_count = cfg.destination_count + 1],
                  current_timestamp)

\* shift_destinations filling the gap with the last destination in use
\* instead of shifting (the order is not kept)
shift_destinations_swap(destinations, idx) ==
    LET last == CHOOSE k \in DestinationIndexes :
                    /\ \/ destinations[k] # ZeroKey
                       \/ k = 0
                    /\ \A j \in DestinationIndexes : j > k => destinations[j] = ZeroKey
    IN  [i \in DestinationIndexes |->
            IF i = last THEN ZeroKey
            ELSE IF i = idx THEN destinations[last]
            ELSE destinations[i]]

\* the destinations after the shift of remove_destination
shift_destinations(destinations, idx) ==
    [i \in DestinationIndexes |->
        IF i < idx THEN destinations[i]
        ELSE IF i < MAX_DESTINATIONS - 1 THEN destinations[i + 1]
        ELSE ZeroKey]

\* remove_destination
remove_destination(cfg, destination_index, owner, current_timestamp) ==
    IF ~owner_matches(cfg, owner) THEN Refused(cfg, 1)
    ELSE IF destination_index >= cfg.destination_count THEN Refused(cfg, 3)
    ELSE IF cfg.destination_count <= 1 THEN Refused(cfg, 4)
    ELSE Accepted([cfg EXCEPT
                      !.destinations = shift_destinations(cfg.destinations, destination_index),
                      !.destination_count = cfg.destination_count - 1],
                  current_timestamp)

\* rotate_destinations storing the new destinations before it validates the
\* new count
rotate_destinations_unchecked_set(cfg, new_destinations, new_count, owner, current_timestamp) ==
    IF ~owner_matches(cfg, owner) THEN Refused(cfg, 1)
    ELSE IF new_count = 0 \/ new_count > MAX_DESTINATIONS
         THEN Refused([cfg EXCEPT !.destinations = new_destinations], 5)
    ELSE Accepted([cfg EXCEPT !.destinations = new_destinations,
                              !.destination_count = new_count],
                  current_timestamp)

\* rotate_destinations
rotate_destinations(cfg, new_destinations, new_count, owner, current_timestamp) ==
    IF ~owner_matches(cfg, owner) THEN Refused(cfg, 1)
    ELSE IF new_count = 0 \/ new_count > MAX_DESTINATIONS THEN Refused(cfg, 5)
    ELSE Accepted([cfg EXCEPT !.destinations = new_destinations,
                              !.destination_count = new_count],
                  current_timestamp)

-----------------------------------------------------------------------------
(* On-chain accounts: state/name_vault.rs, state/privacy_policy.rs,        *)
(* state/delegate_session.rs, state/pending_withdrawal.rs,                  *)
(* instructions/update_policy.rs                                            *)

\* constants::MAX_DESTINATIONS of the on-chain program (the encrypted
\* instructions have their own MAX_DESTINATIONS)
MAX_DESTINATIONS_ON_CHAIN == 10

DEFAULT_MIN_SPLITS == 2

DEFAULT_MAX_SPLITS == 5

DEFAULT_MIN_DELAY_SECONDS == 300

DEFAULT_MAX_DELAY_SECONDS == 1800

PERMISSION_UPDATE_POLICY == 1

\* u64::checked_add on representatives: None on overflow
checked_add(a, b) == IF U64AddOverflows(a, b) THEN None ELSE Some(a + b)

\* NameVault::initialize
NewVault(owner, created_at) ==
    [owner |-> owner, total_sol_received |-> 0, deposit_count |-> 0,
     created_at |-> created_at, last_deposit_at |-> 0]

\* NameVault::record_deposit wrapping around instead of checking
record_deposit_wrapping(vault, amount, timestamp) ==
    [vault |-> [vault EXCEPT !.total_sol_received = @ + amount,
                             !.deposit_count = @ + 1,
                             !.last_deposit_at = timestamp],
     error |-> "Ok"]

\* NameVault::record_deposit: the vault as the method leaves it, and its Result
record_deposit(vault, amount, timestamp) ==
    LET total == checked_add(vault.total_sol_received, amount)
    IN  IF total = None THEN [vault |-> vault, error |-> "ArithmeticOverflow"]
        ELSE LET v1    == [vault EXCEPT !.total_sol_received = total[1]]
                 count == checked_add(v1.deposit_count, 1)
             IN  IF count = None THEN [vault |-> v1, error |-> "ArithmeticOverflow"]
                 ELSE [vault |-> [v1 EXCEPT !.deposit_count = count[1],
                                            !.last_deposit_at = timestamp],
                       error |-> "Ok"]

\* PrivacyPolicy::initialize
NewPolicy(owner, timestamp) ==
    [enabled |-> TRUE,
     min_splits |-> DEFAULT_MIN_SPLITS, max_splits |-> DEFAULT_MAX_SPLITS,
     min_delay_seconds |-> DEFAULT_MIN_DELAY_SECONDS,
     max_delay_seconds |-> DEFAULT_MAX_DELAY_SECONDS,
     distribution |-> "Uniform", privacy_mode |-> "FullPrivacy",
     destination_mode |-> "Single",
     destinations |-> <<owner>>,
     policy_nonce |-> 0, updated_at |-> timestamp]

\* PrivacyPolicy::validate: the error it returns, "Ok" if none
validate(policy) ==
    IF policy.min_splits > policy.max_splits THEN "InvalidSplitRange"
    ELSE IF policy.min_delay_seconds > policy.max_delay_seconds THEN "InvalidDelayRange"
    ELSE IF Len(policy.destinations) > MAX_DESTINATIONS_ON_CHAIN THEN "TooManyDestinations"
    ELSE "Ok"

\* PrivacyPolicy::update: the policy as the method leaves it, and its Result
update(policy, timestamp) ==
    IF validate(policy) # "Ok" THEN [policy |-> policy, error |-> validate(policy)]
    ELSE LET nonce == checked_add(policy.policy_nonce, 1)
         IN  IF nonce = None THEN [policy |-> policy, error |-> "ArithmeticOverflow"]
             ELSE [policy |-> [policy EXCEPT !.policy_nonce = nonce[1],
                                             !.updated_at = timestamp],
                   error |-> "Ok"]

\* DelegateSession::validate_permission: the error it returns, "Ok" if none
validate_permission(delegate, permission, timestamp) ==
    IF ~(timestamp < delegate.expires_at) THEN "DelegateExpired"
    ELSE IF (delegate.permissions \div permission) % 2 = 0 THEN "InsufficientPermissions"
    ELSE "Ok"

\* the authorization of update_policy: delegate_session is an Option
authorize_update(vault, authority, delegate_session, timestamp) ==
    IF vault.owner = authority THEN "Ok"
    ELSE IF delegate_session # None
         THEN validate_permission(delegate_session[1], PERMISSION_UPDATE_POLICY, timestamp)
    ELSE "Unauthorized"

\* the fields of UpdatePolicyParams applied to the policy
apply_params(policy, params) ==
    LET pick(field, opt) == IF opt # None THEN opt[1] ELSE field
    IN  [policy EXCEPT
            !.enabled = pick(@, params.enabled),
            !.min_splits = pick(@, params.min_splits),
            !.max_splits = pick(@, params.max_splits),
            !.min_delay_seconds = pick(@, params.min_delay_seconds),
            !.max_delay_seconds = pick(@, params.max_delay_seconds),
            !.distribution = pick(@, params.distribution),
            !.privacy_mode = pick(@, params.privacy_mode),
            !.destination_mode = pick(@, params.destination_mode),
            !.destinations = pick(@, params.destinations)]

\* the update_policy handler: the policy the method update leaves, and the
\* Result of the instruction
update_policy(vault, policy, authority, delegate_session, params, timestamp) ==
    LET allowed == authorize_update(vault, authority, delegate_session, timestamp)
    IN  IF allowed # "Ok" THEN [policy |-> policy, error |-> allowed, allowed |-> FALSE]
        ELSE [allowed |-> TRUE] @@ update(apply_params(policy, params), timestamp)

\* no PendingWithdrawal account
NoWithdrawal == [status |-> "None"]

\* u8::saturating_add
saturating_add_u8(a, b) == IF a + b >= U8_MODULUS THEN U8_MODULUS - 1 ELSE a + b

\* u64::saturating_add on representatives (-1 stands for 2^64 - 1)
saturating_add(a, b) == IF U64AddOverflows(a, b) THEN -1 ELSE a + b

\* u64::saturating_sub on representatives
saturating_sub(a, b) == IF U64SubUnderflows(a, b) THEN 0 ELSE a - b

\* PendingWithdrawal::initialize, of the fields the program reads
initialize_withdrawal(plan_id, total_splits, total_amount, created_at, expires_at) ==
    [plan_id |-> plan_id, total_splits |-> total_splits, completed_splits |-> 0,
     status |-> "Pending", total_amount |-> total_amount, withdrawn_amount |-> 0,
     created_at |-> created_at, expires_at |-> expires_at, last_execution_at |-> 0]

\* PendingWithdrawal::record_split_execution
record_split_execution(withdrawal, amount, executed_at) ==
    LET completed == saturating_add_u8(withdrawal.completed_splits, 1)
    IN  [withdrawal EXCEPT
            !.completed_splits = completed,
            !.withdrawn_amount = saturating_add(@, amount),
            !.last_execution_at = executed_at,
            !.status = IF completed >= withdrawal.total_splits
                       THEN "Completed" ELSE "InProgress"]

\* PendingWithdrawal::remaining_amount
remaining_amount(withdrawal) ==
    saturating_sub(withdrawal.total_amount, withdrawal.withdrawn_amount)

\* the accounts after initialize_vault
NewChain ==
    [vault |-> NewVault(Key(7), 0), policy |-> NewPolicy(Key(7), 0),
     withdrawal |-> NoWithdrawal]

-----------------------------------------------------------------------------
(* Inputs of the model *)

OwnerKey == Key(7)

\* claimed owners: the owner, and keys that differ from it in one byte only
ClaimedOwners == {OwnerKey, KeyWith(OwnerKey, 0, 8), KeyWith(OwnerKey, KEY_LEN - 1, 8)}

Destinations == [k \in DestinationIndexes |-> IF k < 3 THEN Key(11 + k) ELSE ZeroKey]

\* a stored configuration (it passed the validation of store_private_config)
Config(min_splits, max_splits, destination_count) ==
    [owner_pubkey      |-> OwnerKey,
     destinations      |-> [k \in DestinationIndexes |->
                               IF k < destination_count THEN Destinations[k] ELSE ZeroKey],
     destination_count |-> destination_count,
     min_splits        |-> min_splits,
     max_splits        |-> max_splits,
     min_delay_seconds |-> 300,
     max_delay_seconds |-> 1800,
     auto_withdraw_enabled   |-> FALSE,
     auto_withdraw_threshold |-> 0,
     updated_at |-> 0,
     version    |-> 1]

UserRandom == [i \in 0..(KEY_LEN - 1) |-> i + 1]

\* the same draw for every position
Const(S, v) == [i \in S |-> v]

\* clock values: around the grace boundary of a split scheduled 300 s after
\* Epoch, and around the expiry of a plan created at Epoch
Times ==
    {Epoch + 300 - GRACE_SECONDS - 1, Epoch + 300 - GRACE_SECONDS,
     Epoch + EXPIRY_SECONDS, Epoch + EXPIRY_SECONDS + 1}

\* vault balances: empty, exactly the first amount of the two-split plan of Spec,
\* and ample
VaultBalances == {0, 20001, 1000000000}

TxSignatures == {1, 2}

\* split indexes offered to the executor: 0 and 1 (1 is out of range for a plan
\* of one split), and MAX_SPLITS, beyond the capacity
OfferedIndexes == {0, 1, MAX_SPLITS}

-----------------------------------------------------------------------------
(* State *)

\* the call that made the last step and, for execute_withdrawal_split, what it
\* returned (result); aborted: the instruction stopped on an arithmetic overflow
Call(op, split_index, vault_balance, tx_signature, owner, aborted) ==
    [op |-> op, split_index |-> split_index, vault_balance |-> vault_balance,
     tx_signature |-> tx_signature, owner |-> owner, aborted |-> aborted]

NoCall(op) == Call(op, 0, 0, ZeroSig, ZeroKey, FALSE)

InitAccounts(Configs, Chains) ==
    /\ config \in Configs
    /\ plan = NoPlan
    /\ now = Epoch
    /\ call = NoCall("none")
    /\ result = EmptyExecution
    /\ next_split = NoNextSplit
    /\ reply = NoReply
    /\ accepted = {}
    /\ chain \in Chains

InitWith(Configs) == InitAccounts(Configs, {NewChain})

\* generate_withdrawal_plan is computed and its plan stored
Generate(Totals, Rngs) ==
    /\ plan = NoPlan
    /\ \E total \in Totals, rng \in Rngs, overflow_checks \in BOOLEAN :
          LET generated == generate_withdrawal_plan(config, total, UserRandom, now, rng)
              aborted   == overflow_checks /\ generated.overflow
          IN  /\ plan' = IF aborted THEN NoPlan ELSE generated.plan
              /\ call' = Call("generate", 0, total, ZeroSig, ZeroKey, aborted)
    /\ result' = EmptyExecution
    /\ next_split' = NoNextSplit
    /\ reply' = NoReply
    /\ accepted' = {}
    /\ UNCHANGED <<config, now, chain>>

\* time passes
Tick(TimeSet) ==
    /\ \E t \in TimeSet : t > now /\ now' = t
    /\ call' = NoCall("tick")
    /\ result' = EmptyExecution
    /\ next_split' = NoNextSplit
    /\ reply' = NoReply
    /\ UNCHANGED <<config, plan, accepted, chain>>

\* plan_after_execute_split if a successful proposal recorded the execution itself
plan_after_execute_split_recording(p, split_index, current_timestamp, vault_balance) ==
    IF execute_withdrawal_split(p, split_index, current_timestamp, vault_balance).success
    THEN [p EXCEPT !.splits[split_index].executed_at = current_timestamp]
    ELSE p

\* execute_withdrawal_split receives the plan by reference and returns only
\* the WithdrawalExecution: the stored plan after the call
plan_after_execute_split(p, split_index, current_timestamp, vault_balance) == p

\* propose: execute_withdrawal_split
Propose(Indexes, Balances) ==
    /\ plan # NoPlan
    /\ \E split_index \in Indexes, vault_balance \in Balances :
          /\ result' = execute_withdrawal_split(plan, split_index, now, vault_balance)
          /\ plan' = plan_after_execute_split(plan, split_index, now, vault_balance)
          /\ call' = Call("propose", split_index, vault_balance, ZeroSig, ZeroKey, FALSE)
          /\ accepted' = IF result'.success THEN accepted \cup {split_index} ELSE accepted
    /\ next_split' = NoNextSplit
    /\ reply' = NoReply
    /\ UNCHANGED <<config, now, chain>>

\* confirm: mark_split_executed, with the clock as its executed_at;
\* explored while executed_count < cap
Confirm(Indexes, Signatures, cap) ==
    /\ plan # NoPlan
    /\ plan.executed_count < cap
    /\ \E split_index \in Indexes, tx_signature \in Signatures, overflow_checks \in BOOLEAN :
          LET aborted == overflow_checks /\ executed_count_overflows(plan, split_index)
          IN  /\ plan' = IF aborted THEN plan
                         ELSE mark_split_executed(plan, split_index, tx_signature, now)
              /\ call' = Call("confirm", split_index, 0, tx_signature, ZeroKey, aborted)
    /\ result' = EmptyExecution
    /\ next_split' = NoNextSplit
    /\ reply' = NoReply
    /\ UNCHANGED <<config, now, accepted, chain>>

\* cancel: cancel_withdrawal_plan
Cancel(Owners) ==
    /\ plan # NoPlan
    /\ \E owner \in Owners :
          /\ plan' = cancel_withdrawal_plan(plan, owner, config)
          /\ call' = Call("cancel", 0, 0, ZeroSig, owner, FALSE)
    /\ result' = EmptyExecution
    /\ next_split' = NoNextSplit
    /\ reply' = NoReply
    /\ UNCHANGED <<config, now, accepted, chain>>

\* get_next_split is asked which split to execute at the current time
NextSplit ==
    /\ plan # NoPlan
    /\ next_split' = get_next_split(plan, now)
    /\ call' = NoCall("next_split")
    /\ result' = EmptyExecution
    /\ reply' = NoReply
    /\ UNCHANGED <<config, plan, now, accepted, chain>>

\* query_encrypted_balance is asked about the stored plan (None before one
\* is generated)
QueryBalance(Balances) ==
    /\ \E current_balance \in Balances, overflow_checks \in BOOLEAN :
          LET queried == query_encrypted_balance(current_balance, plan, now)
              aborted == overflow_checks /\ queried.overflow
          IN  /\ reply' = IF aborted THEN NoReply
                          ELSE [op |-> "query_balance", info |-> queried.info]
              /\ call' = Call("query_balance", 0, current_balance, ZeroSig, ZeroKey, aborted)
    /\ result' = EmptyExecution
    /\ next_split' = NoNextSplit
    /\ UNCHANGED <<config, plan, now, accepted, chain>>

\* query_withdrawal_history is asked about an array of plans
QueryHistory(PlanArrays, Limits) ==
    /\ \E plans \in PlanArrays, limit \in Limits :
          reply' = [op |-> "query_history", plans |-> plans, limit |-> limit,
                    history |-> query_withdrawal_history(plans, limit)]
    /\ call' = NoCall("query_history")
    /\ result' = EmptyExecution
    /\ next_split' = NoNextSplit
    /\ UNCHANGED <<config, plan, now, accepted, chain>>

\* store_private_config validates a submitted configuration
StoreConfig(Candidates, Slots) ==
    /\ \E cfg \in Candidates, current_slot \in Slots :
          reply' = [op |-> "store", submitted |-> cfg,
                    stored |-> store_private_config(cfg, current_slot)]
    /\ call' = NoCall("store")
    /\ result' = EmptyExecution
    /\ next_split' = NoNextSplit
    /\ UNCHANGED <<config, plan, now, accepted, chain>>

\* verify_config_hash compares a configuration with an expected hash
VerifyHash(Candidates, Hashes) ==
    /\ \E cfg \in Candidates, expected_hash \in Hashes :
          reply' = [op |-> "verify", submitted |-> cfg, expected_hash |-> expected_hash,
                    matches |-> verify_config_hash(cfg, expected_hash)]
    /\ call' = NoCall("verify")
    /\ result' = EmptyExecution
    /\ next_split' = NoNextSplit
    /\ UNCHANGED <<config, plan, now, accepted, chain>>

\* a configuration operation has returned returned = [success, new_config,
\* error_code, overflow] on the input given: the returned configuration is
\* the stored one from now on, unless the operation stopped on an overflow
ConfigOperation(op, given, owner, returned, overflow_checks) ==
    LET aborted == overflow_checks /\ returned.overflow
    IN  /\ config' = IF aborted THEN config ELSE returned.new_config
        /\ reply' = IF aborted THEN NoReply
                    ELSE [op |-> op, given |-> given, success |-> returned.success,
                          new_config |-> returned.new_config,
                          error_code |-> returned.error_code]
        /\ call' = Call(op, 0, 0, ZeroSig, owner, aborted)
        /\ result' = EmptyExecution
        /\ next_split' = NoNextSplit
        /\ UNCHANGED <<plan, now, accepted, chain>>

\* a deposit is recorded by NameVault::record_deposit; the counters are
\* explored up to cap and total_cap and from their last values before 2^64
RecordDeposit(Amounts, cap, total_cap) ==
    /\ chain.vault.deposit_count < cap
    /\ chain.vault.total_sol_received < total_cap
    /\ \E amount \in Amounts :
          LET returned == record_deposit(chain.vault, amount, now)
          IN  /\ chain' = [chain EXCEPT !.vault = returned.vault]
              /\ reply' = [op |-> "record_deposit", given |-> amount,
                           error |-> returned.error]
    /\ call' = NoCall("record_deposit")
    /\ result' = EmptyExecution
    /\ next_split' = NoNextSplit
    /\ UNCHANGED <<config, plan, now, accepted>>

\* the update_policy instruction; a failed instruction leaves the account as
\* it was.  The nonce is explored up to cap and from its last values before 2^64
UpdatePolicy(Params, Authorities, Delegates, cap) ==
    /\ chain.policy.policy_nonce < cap
    /\ \E params \in Params, authority \in Authorities, delegate_session \in Delegates :
          LET returned == update_policy(chain.vault, chain.policy, authority,
                                        delegate_session, params, now)
          IN  /\ chain' = IF returned.error = "Ok"
                          THEN [chain EXCEPT !.policy = returned.policy]
                          ELSE chain
              /\ reply' = [op |-> "update_policy", given |-> params,
                           allowed |-> returned.allowed,
                           left |-> returned.policy, error |-> returned.error]
              /\ call' = Call("update_policy", 0, 0, ZeroSig, authority, FALSE)
    /\ result' = EmptyExecution
    /\ next_split' = NoNextSplit
    /\ UNCHANGED <<config, plan, now, accepted>>

\* a plan is generated and the PendingWithdrawal account is initialised from it
InitializeWithdrawal(Totals, Rngs) ==
    /\ plan = NoPlan
    /\ \E total \in Totals, rng \in Rngs, overflow_checks \in BOOLEAN :
          LET generated == generate_withdrawal_plan(config, total, UserRandom, now, rng)
              aborted   == overflow_checks /\ generated.overflow
              p         == generated.plan
          IN  /\ plan' = IF aborted THEN NoPlan ELSE p
              /\ chain' = IF aborted THEN chain
                          ELSE [chain EXCEPT !.withdrawal =
                                   initialize_withdrawal(p.plan_id, p.split_count,
                                                         p.total_amount, p.created_at,
                                                         p.expires_at)]
              /\ call' = Call("generate", 0, total, ZeroSig, ZeroKey, aborted)
    /\ result' = EmptyExecution
    /\ next_split' = NoNextSplit
    /\ reply' = NoReply
    /\ accepted' = {}
    /\ UNCHANGED <<config, now>>

\* mark_split_executed accepts a split that was not marked before, and
\* record_split_execution is applied with the amount of that split
RecordExecution(Indexes, Signatures) ==
    /\ plan # NoPlan
    /\ chain.withdrawal # NoWithdrawal
    /\ \E split_index \in Indexes, tx_signature \in Signatures :
          /\ split_index < plan.split_count
          /\ plan.splits[split_index].executed_at = 0
          /\ plan' = mark_split_executed(plan, split_index, tx_signature, now)
          /\ chain' = [chain EXCEPT !.withdrawal =
                          record_split_execution(@, plan.splits[split_index].amount, now)]
          /\ call' = Call("confirm", split_index, 0, tx_signature, ZeroKey, FALSE)
    /\ result' = EmptyExecution
    /\ next_split' = NoNextSplit
    /\ reply' = NoReply
    /\ UNCHANGED <<config, now, accepted>>

\* update_private_config, explored while version < cap
UpdateConfig(Patches, Owners, cap) ==
    /\ config.version < cap
    /\ \E upd \in Patches, owner \in Owners, overflow_checks \in BOOLEAN :
          ConfigOperation("update", upd, owner,
                          update_private_config(config, upd, owner, now), overflow_checks)

\* add_destination
AddDestination(NewKeys, Owners, cap) ==
    /\ config.version < cap
    /\ \E new_destination \in NewKeys, owner \in Owners, overflow_checks \in BOOLEAN :
          ConfigOperation("add", new_destination, owner,
                          add_destination(config, new_destination, owner, now),
                          overflow_checks)

\* remove_destination
RemoveDestination(Indexes, Owners, cap) ==
    /\ config.version < cap
    /\ \E destination_index \in Indexes, owner \in Owners, overflow_checks \in BOOLEAN :
          ConfigOperation("remove", destination_index, owner,
                          remove_destination(config, destination_index, owner, now),
                          overflow_checks)

\* rotate_destinations
RotateDestinations(NewSets, Counts, Owners, cap) ==
    /\ config.version < cap
    /\ \E new_destinations \in NewSets, new_count \in Counts, owner \in Owners,
          overflow_checks \in BOOLEAN :
          ConfigOperation("rotate", <<new_destinations, new_count>>, owner,
                          rotate_destinations(config, new_destinations, new_count, owner, now),
                          overflow_checks)

-----------------------------------------------------------------------------
(* Spec: the executor on plans of one or two splits *)

ExecRngs ==
    [count : {0, 1}, amount : {Const(SplitIndexes, 0)}, idx : {0},
     delay : {Const(SplitIndexes, 0)}, shuffle : {Const(DestinationIndexes, 1)}]

Init == InitWith({Config(1, 2, 2)})

Next ==
    \/ Generate({50001}, ExecRngs)
    \/ Tick(Times)
    \/ Propose(OfferedIndexes, VaultBalances)
    \/ Confirm(OfferedIndexes, TxSignatures, MaxExecutedCount)
    \/ Cancel(ClaimedOwners)

Spec == Init /\ [][Next]_vars

-----------------------------------------------------------------------------
(* SpecGen: the generator over totals, split counts and random draws *)

\* 16-bit draws: for base 10_000 (perturbation range 2_000) they give the
\* perturbations -2_000, +2_000 and -481
Draws16 == {0, 4000, 65535}

\* totals: a multiple of every count with base near the dust floor, totals that
\* leave a remainder, and 1 SOL
GenTotals == {50000, 50001, 100001, 1000000000}

GenRngs ==
    [count : 0..(MAX_SPLITS - 1), amount : [SplitIndexes -> Draws16], idx : {0, 4},
     delay : {Const(SplitIndexes, 0)}, shuffle : {Const(DestinationIndexes, 1)}]

InitGen == InitWith({Config(1, MAX_SPLITS, 3)})

NextGen == Generate(GenTotals, GenRngs)

SpecGen == InitGen /\ [][NextGen]_vars

-----------------------------------------------------------------------------
(* SpecWrap: the executor on a plan of one split, executed_count over its *)
(* whole 8-bit range                                                       *)

WrapRngs ==
    [count : {0}, amount : {Const(SplitIndexes, 0)}, idx : {0},
     delay : {Const(SplitIndexes, 0)}, shuffle : {Const(DestinationIndexes, 1)}]

InitWrap == InitWith({Config(1, 1, 1)})

NextWrap ==
    \/ Generate({50001}, WrapRngs)
    \/ Propose({0}, {1000000000})
    \/ Confirm({0}, {1}, U8_MODULUS)
    \/ Cancel({OwnerKey})

SpecWrap == InitWrap /\ [][NextWrap]_vars

-----------------------------------------------------------------------------
(* SpecSmall: the generator on totals that are small for the split count *)

\* totals up to MaxSmallThousands * 1000, and 5: many of them are below
\* (count - 1) * 10_000 for some count
SmallTotals == {5} \cup {1000 * k : k \in 1..MaxSmallThousands}

SmallRngs ==
    [count : 0..(MAX_SPLITS - 1),
     amount : {Const(SplitIndexes, 0), Const(SplitIndexes, 65535)}, idx : {0, 4},
     delay : {Const(SplitIndexes, 0)}, shuffle : {Const(DestinationIndexes, 1)}]

InitSmall == InitWith({Config(1, MAX_SPLITS, 3)})

NextSmall == Generate(SmallTotals, SmallRngs)

SpecSmall == InitSmall /\ [][NextSmall]_vars

-----------------------------------------------------------------------------
(* SpecPlan: the generator over every split range and over the delay draws *)

\* <<min_delay_seconds, max_delay_seconds>>
DelayRanges == {<<0, 0>>, <<300, 1800>>}

\* every configuration with 1 <= min_splits <= max_splits <= MAX_SPLITS
PlanConfigs ==
    {[Config(r[1], r[2], 3) EXCEPT !.min_delay_seconds = d[1], !.max_delay_seconds = d[2]] :
        r \in {q \in (1..MAX_SPLITS) \X (1..MAX_SPLITS) : q[1] <= q[2]}, d \in DelayRanges}

\* 8-bit draws of the split count, the largest one included
CountDraws == (0..(MAX_SPLITS + 2)) \cup {U8_MODULUS - 1}

\* 32-bit draws of the delays: 300 + 0 and 300 + 1500 in the range 300..1800
PlanRngs ==
    [count : CountDraws, amount : {Const(SplitIndexes, 0)}, idx : {0},
     delay : [SplitIndexes -> {0, 1500}], shuffle : {Const(DestinationIndexes, 1)}]

InitPlan == InitWith(PlanConfigs)

NextPlan == Generate({1000000000}, PlanRngs)

SpecPlan == InitPlan /\ [][NextPlan]_vars

-----------------------------------------------------------------------------
(* SpecDest: the generator over every destination count and every shuffle *)

\* five distinct destinations, destination_count of them configured
DestConfigs ==
    {[Config(splits, splits, count) EXCEPT
         !.destinations = [k \in DestinationIndexes |-> Key(51 + k)]] :
        splits \in {1, 3, MAX_SPLITS}, count \in 1..MAX_DESTINATIONS}

\* every choice of j at every step of the shuffle, and the largest 8-bit draw
ShuffleDraws ==
    {d \in [DestinationIndexes -> DestinationIndexes] : d[0] = 0}
       \cup {Const(DestinationIndexes, U8_MODULUS - 1)}

DestRngs ==
    [count : {0}, amount : {Const(SplitIndexes, 0)}, idx : {0},
     delay : {Const(SplitIndexes, 0)}, shuffle : ShuffleDraws]

InitDest == InitWith(DestConfigs)

NextDest == Generate({1000000000}, DestRngs)

SpecDest == InitDest /\ [][NextDest]_vars

-----------------------------------------------------------------------------
(* SpecDelay: the generator over delay ranges and delay draws *)

\* plans of three splits over a range, a single value and the widest range
DelayConfigs ==
    {[Config(3, 3, 3) EXCEPT !.min_delay_seconds = d[1], !.max_delay_seconds = d[2]] :
        d \in {<<300, 1800>>,
               <<MIN_DELAY_FLOOR_SECONDS, MIN_DELAY_FLOOR_SECONDS>>,
               <<MIN_DELAY_FLOOR_SECONDS, MAX_DELAY_CEILING_SECONDS>>}}

\* 32-bit draws: both ends of the range 300..1800, one inside it, one past
\* it, and a large one
DelayDraws == {0, 700, 1500, 1501, 2147483647}

DelayRngs ==
    [count : {0}, amount : {Const(SplitIndexes, 0)}, idx : {0},
     delay : {[i \in SplitIndexes |-> IF i < 3 THEN d[i + 1] ELSE 0] :
                 d \in DelayDraws \X DelayDraws \X DelayDraws},
     shuffle : {Const(DestinationIndexes, 1)}]

InitDelay == InitWith(DelayConfigs)

NextDelay == Generate({1000000000}, DelayRngs)

SpecDelay == InitDelay /\ [][NextDelay]_vars

-----------------------------------------------------------------------------
(* SpecLookup: get_next_split on plans of two or three splits as time passes *)
(* and splits are marked executed                                           *)

LookupRngs ==
    [count : {0, 1}, amount : {Const(SplitIndexes, 0)}, idx : {0},
     delay : {[i \in SplitIndexes |-> IF i \in S THEN 1500 ELSE 0] : S \in SUBSET {0, 1, 2}},
     shuffle : {Const(DestinationIndexes, 1)}]

\* one second before the first schedule, then the possible schedules
LookupTimes ==
    {Epoch + 299, Epoch + 300, Epoch + 600, Epoch + 2100, Epoch + 3900}

InitLookup == InitWith({Config(2, 3, 3)})

NextLookup ==
    \/ Generate({1000000000}, LookupRngs)
    \/ Tick(LookupTimes)
    \/ Confirm({0, 1, 2}, {1}, MaxExecutedCount)
    \/ NextSplit

SpecLookup == InitLookup /\ [][NextLookup]_vars

-----------------------------------------------------------------------------
(* SpecHint: get_next_split as in SpecLookup, on plans that may be cancelled *)

NextHint ==
    \/ Generate({1000000000}, LookupRngs)
    \/ Tick(LookupTimes \cup {Epoch + EXPIRY_SECONDS + 1})
    \/ Confirm({0, 1, 2}, {1}, MaxExecutedCount)
    \/ Cancel({OwnerKey})
    \/ NextSplit

SpecHint == InitLookup /\ [][NextHint]_vars

-----------------------------------------------------------------------------
(* SpecDrive: a driver walks a plan of two or three splits to completion:  *)
(* it asks get_next_split, proposes the split it reports with a covering   *)
(* balance, and confirms once after a successful propose, all while        *)
(* now <= expires_at.  The clock moves through the schedule under weak     *)
(* fairness; it may also jump past expires_at at any moment, without       *)
(* fairness.  Nobody cancels.                                               *)

\* clock values up to the last possible schedule of a three-split plan
DriveTimes == {Epoch + 300, Epoch + 2100, Epoch + 5400}

DriveActive == plan # NoPlan /\ now <= plan.expires_at

\* the driver asks for the next split unless it has a propose to confirm
DriveLookup ==
    /\ DriveActive
    /\ ~(call.op = "propose" /\ result.success)
    /\ NextSplit

DrivePropose ==
    /\ DriveActive
    /\ call.op = "next_split" /\ next_split.found
    /\ Propose({next_split.next_index}, {1000000000})

DriveConfirm ==
    /\ DriveActive
    /\ call.op = "propose" /\ result.success
    /\ Confirm({call.split_index}, {1}, U8_MODULUS)

\* the plan is generated at Epoch; the clock moves once it exists
DriveTick == plan # NoPlan /\ Tick(DriveTimes)

DriveExpire == plan # NoPlan /\ Tick({Epoch + EXPIRY_SECONDS + 1})

NextDrive ==
    \/ Generate({1000000000}, LookupRngs)
    \/ DriveTick
    \/ DriveExpire
    \/ DriveLookup
    \/ DrivePropose
    \/ DriveConfirm

DriveFairness ==
    /\ WF_vars(DriveTick)
    /\ WF_vars(DriveLookup)
    /\ WF_vars(DrivePropose)
    /\ WF_vars(DriveConfirm)

SpecDrive == InitLookup /\ [][NextDrive]_vars /\ DriveFairness

-----------------------------------------------------------------------------
(* SpecQuery: the balance query on no plan and on plans in every status *)

\* below, at and above the pending amounts 20001, 30001 and 50002
QueryBalances == {0, 20000, 20001, 30002, 50002, 50003, 1000000000}

InitQuery == InitWith({Config(1, 2, 2)})

NextQuery ==
    \/ Generate({50001}, ExecRngs)
    \/ Confirm({0, 1}, {1}, MaxExecutedCount)
    \/ Cancel({OwnerKey})
    \/ QueryBalance(QueryBalances)

SpecQuery == InitQuery /\ [][NextQuery]_vars

-----------------------------------------------------------------------------
(* SpecHistory: the history query on arrays with Completed plans in every *)
(* set of slots                                                          *)

\* a plan of two executed splits, the first one executed last
HistoryPlan(i, status) ==
    [DefaultPlan EXCEPT
        !.plan_id      = [k \in 0..15 |-> i + 1],
        !.total_amount = 1000 * (i + 1),
        !.split_count  = 2,
        !.executed_count = 2,
        !.status       = status,
        !.created_at   = Epoch + i,
        !.splits       = [@ EXCEPT ![0].executed_at = Epoch + 20 + i,
                                   ![1].executed_at = Epoch + 10 + i]]

\* the plans in the slots of Done are Completed; the other slots hold no
\* plan, a Cancelled plan or an InProgress plan
HistoryArray(Done) ==
    [i \in HistoryIndexes |->
        IF i \in Done THEN HistoryPlan(i, "Completed")
        ELSE IF i % 3 = 0 THEN NoPlan
        ELSE IF i % 3 = 1 THEN HistoryPlan(i, "Cancelled")
        ELSE HistoryPlan(i, "InProgress")]

\* Completed plans in every subset of five slots, and in all slots
HistoryArrays ==
    {HistoryArray(Done) : Done \in (SUBSET {0, 2, 3, 4, HISTORY_SLOTS - 1}) \cup {HistoryIndexes}}

\* limit is a u8
HistoryLimits == {0, 1, 3, HISTORY_SLOTS - 1, HISTORY_SLOTS, HISTORY_SLOTS + 1, U8_MODULUS - 1}

InitHistory == InitWith({Config(1, 2, 2)})

NextHistory == QueryHistory(HistoryArrays, HistoryLimits)

SpecHistory == InitHistory /\ [][NextHistory]_vars

-----------------------------------------------------------------------------
(* SpecStore: store_private_config on configurations around every limit *)

\* destination counts, split ranges and delay ranges at and beyond the limits
StoreCandidates ==
    {[Config(splits[1], splits[2], 1) EXCEPT
         !.destination_count = count,
         !.min_delay_seconds = delays[1],
         !.max_delay_seconds = delays[2]] :
        count  \in {0, 1, MAX_DESTINATIONS, MAX_DESTINATIONS + 1},
        splits \in {<<0, 1>>, <<1, 1>>, <<2, 1>>, <<1, MAX_SPLITS>>, <<1, MAX_SPLITS + 1>>},
        delays \in {<<MIN_DELAY_FLOOR_SECONDS - 1, 300>>,
                    <<MIN_DELAY_FLOOR_SECONDS, MIN_DELAY_FLOOR_SECONDS>>,
                    <<300, 200>>,
                    <<300, MAX_DELAY_CEILING_SECONDS>>,
                    <<300, MAX_DELAY_CEILING_SECONDS + 1>>}}

InitStore == InitWith({Config(1, 2, 2)})

NextStore == StoreConfig(StoreCandidates, {7, 8})

SpecStore == InitStore /\ [][NextStore]_vars

-----------------------------------------------------------------------------
(* SpecHash: the configuration hash and its verification *)

HashBase == [Config(2, 3, 2) EXCEPT !.destinations[3] = Key(14)]

\* configurations that differ from HashBase in one field
HashConfigs ==
    {HashBase,
     [HashBase EXCEPT !.version = 2],
     [HashBase EXCEPT !.destination_count = 3],
     [HashBase EXCEPT !.destination_count = MAX_DESTINATIONS],
     [HashBase EXCEPT !.min_splits = 1],
     [HashBase EXCEPT !.max_splits = MAX_SPLITS],
     [HashBase EXCEPT !.min_delay_seconds = 300 + 256],
     [HashBase EXCEPT !.max_delay_seconds = 1800 + 65536],
     [HashBase EXCEPT !.auto_withdraw_enabled = TRUE],
     [HashBase EXCEPT !.auto_withdraw_threshold = 9],
     [HashBase EXCEPT !.updated_at = 5],
     [HashBase EXCEPT !.destinations[0] = KeyWith(@, 0, 99)],
     [HashBase EXCEPT !.destinations[1] = KeyWith(@, 1, 99)],
     [HashBase EXCEPT !.destinations[1] = KeyWith(@, KEY_LEN - 1, 99)],
     [HashBase EXCEPT !.destinations[3] = ZeroKey],
     [HashBase EXCEPT !.owner_pubkey = KeyWith(@, 7, 99)],
     [HashBase EXCEPT !.owner_pubkey = KeyWith(@, 8, 99)]}

\* the hashes of these configurations, and hashes one byte away from them
ExpectedHashes ==
    UNION {{compute_config_hash(cfg),
            KeyWith(compute_config_hash(cfg), 0, 77),
            KeyWith(compute_config_hash(cfg), KEY_LEN - 1, 77)} : cfg \in HashConfigs}

InitHash == InitWith({HashBase})

NextHash ==
    \/ StoreConfig(HashConfigs, {7})
    \/ VerifyHash(HashConfigs, ExpectedHashes)

SpecHash == InitHash /\ [][NextHash]_vars

-----------------------------------------------------------------------------
(* SpecConfig: the update operations on valid configurations *)

\* the owner, and a key that differs from the owner's in the last byte
ConfigOwners == {OwnerKey, KeyWith(OwnerKey, KEY_LEN - 1, 8)}

\* a full set of new destinations, none of them zero
NewDestinations == [k \in DestinationIndexes |-> Key(31 + k)]

\* ConfigUpdates with no field set
NoPatch ==
    [new_destinations |-> None, new_destination_count |-> None,
     new_min_splits |-> None, new_max_splits |-> None,
     new_min_delay_seconds |-> None, new_max_delay_seconds |-> None,
     new_auto_withdraw_enabled |-> None, new_auto_withdraw_threshold |-> None]

SplitPatches ==
    {[NoPatch EXCEPT !.new_min_splits = lo, !.new_max_splits = hi] :
        lo \in {None, Some(0), Some(3)},
        hi \in {None, Some(1), Some(4), Some(MAX_SPLITS + 1)}}

DelayPatches ==
    {[NoPatch EXCEPT !.new_min_delay_seconds = lo, !.new_max_delay_seconds = hi] :
        lo \in {None, Some(MIN_DELAY_FLOOR_SECONDS - 1), Some(2000)},
        hi \in {None, Some(100), Some(3000), Some(MAX_DELAY_CEILING_SECONDS + 1)}}

DestinationPatches ==
    {[NoPatch EXCEPT !.new_destinations = dests, !.new_destination_count = count] :
        dests \in {None, Some(NewDestinations)},
        count \in {None, Some(0), Some(2), Some(MAX_DESTINATIONS + 1)}}

\* every field set: the split and the delay bounds are refused, the rest applies
FullPatch ==
    [new_destinations |-> Some(NewDestinations), new_destination_count |-> Some(4),
     new_min_splits |-> Some(0), new_max_splits |-> Some(MAX_SPLITS),
     new_min_delay_seconds |-> Some(2000), new_max_delay_seconds |-> Some(3000),
     new_auto_withdraw_enabled |-> Some(TRUE), new_auto_withdraw_threshold |-> Some(5)]

\* both split bounds raised past the current maximum of 2 or 3
RaisingPatch ==
    [NoPatch EXCEPT !.new_min_splits = Some(4), !.new_max_splits = Some(MAX_SPLITS)]

ConfigPatches ==
    SplitPatches \cup DelayPatches \cup DestinationPatches \cup {FullPatch, RaisingPatch}

InitConfig ==
    InitWith({Config(1, 2, 1), Config(2, 3, 3), Config(1, MAX_SPLITS, MAX_DESTINATIONS)})

NextConfig ==
    \/ UpdateConfig(ConfigPatches, ConfigOwners, MaxConfigVersion)
    \/ AddDestination({Key(21)}, ConfigOwners, MaxConfigVersion)
    \/ RemoveDestination({0, 1, MAX_DESTINATIONS}, ConfigOwners, MaxConfigVersion)
    \/ RotateDestinations({NewDestinations}, {0, 2, MAX_DESTINATIONS + 1}, ConfigOwners,
                          MaxConfigVersion)

SpecConfig == InitConfig /\ [][NextConfig]_vars

-----------------------------------------------------------------------------
(* SpecVersion: accepted operations over the whole 8-bit range of version *)

InitVersion == InitWith({Config(1, 1, 1)})

NextVersion ==
    \/ UpdateConfig({NoPatch}, {OwnerKey}, U8_MODULUS)
    \/ AddDestination({Key(21)}, {OwnerKey}, U8_MODULUS)
    \/ RemoveDestination({0}, {OwnerKey}, U8_MODULUS)
    \/ RotateDestinations({NewDestinations}, {1}, {OwnerKey}, U8_MODULUS)

SpecVersion == InitVersion /\ [][NextVersion]_vars

-----------------------------------------------------------------------------
(* SpecChain: deposits and policy updates, from fresh accounts and from *)
(* counters at their last values before 2^64                            *)

\* accounts whose counters are 0 or a few steps from 2^64
ChainStates ==
    {[NewChain EXCEPT !.vault.total_sol_received = total,
                      !.vault.deposit_count = count,
                      !.policy.policy_nonce = nonce] :
        total \in {0, -3}, count \in {0, -2}, nonce \in {0, -2}}

NoParams ==
    [enabled |-> None, min_splits |-> None, max_splits |-> None,
     min_delay_seconds |-> None, max_delay_seconds |-> None,
     distribution |-> None, privacy_mode |-> None, destination_mode |-> None,
     destinations |-> None]

PolicyParams ==
    {NoParams,
     [NoParams EXCEPT !.min_splits = Some(DEFAULT_MAX_SPLITS + 1)],
     [NoParams EXCEPT !.min_delay_seconds = Some(DEFAULT_MAX_DELAY_SECONDS + 1)],
     [NoParams EXCEPT !.destinations =
                          Some([k \in 1..(MAX_DESTINATIONS_ON_CHAIN + 1) |-> Key(40 + k)])],
     [NoParams EXCEPT !.enabled = Some(FALSE), !.max_splits = Some(3),
                      !.destinations = Some(<<Key(41), Key(42)>>)]}

DelegateSessions ==
    {None,
     Some([permissions |-> 1, expires_at |-> Epoch + 1000]),
     Some([permissions |-> 2, expires_at |-> Epoch + 1000]),
     Some([permissions |-> 3, expires_at |-> Epoch])}

InitChain == InitAccounts({Config(1, 2, 1)}, ChainStates)

NextChain ==
    \/ RecordDeposit({1, 3, 5}, MaxDeposits, MaxDepositTotal)
    \/ UpdatePolicy(PolicyParams, {Key(7), Key(9)}, DelegateSessions, MaxPolicyNonce)

SpecChain == InitChain /\ [][NextChain]_vars

-----------------------------------------------------------------------------
(* SpecMirror: the PendingWithdrawal account follows plans of one to three *)
(* splits as their splits are marked executed in any order                 *)

MirrorRngs ==
    [count : {0, 1, 2}, amount : {Const(SplitIndexes, 0), Const(SplitIndexes, 65535)},
     idx : {0}, delay : {Const(SplitIndexes, 0)}, shuffle : {Const(DestinationIndexes, 1)}]

InitMirror == InitWith({Config(1, 3, 3)})

NextMirror ==
    \/ InitializeWithdrawal({50001, 1000000000}, MirrorRngs)
    \/ Tick({Epoch + 300, Epoch + 900})
    \/ RecordExecution({0, 1, 2}, {1})

SpecMirror == InitMirror /\ [][NextMirror]_vars

-----------------------------------------------------------------------------
(* Claims *)

HasPlan == plan # NoPlan

PlanSplits == {i \in SplitIndexes : i < plan.split_count}

RECURSIVE sum_amounts(_, _)
sum_amounts(p, n) == IF n = 0 THEN 0 ELSE sum_amounts(p, n - 1) + p.splits[n - 1].amount

\* the amounts of the plan's splits, as u64 values, add up to exactly total
\* (no amount is a wrapped value, which would be near 2^64)
AmountsSumTo(p, total) ==
    /\ \A i \in SplitIndexes : i < p.split_count => p.splits[i].amount >= 0
    /\ sum_amounts(p, p.split_count) = total

\* C1 (conservation): every plan returned by generate_withdrawal_plan with a
\* split count in [1, MAX_SPLITS] has split amounts that add up to total_amount,
\* also when total is not a multiple of the split count.
C1_Conservation ==
    (HasPlan /\ plan.split_count \in 1..MAX_SPLITS)
        => AmountsSumTo(plan, plan.total_amount)

\* C10 (dust floor): in every generated plan with split count >= 1 and
\* total / count >= 10_000, every split amount, the last included, is >= 10_000.
C10_DustFloor ==
    (HasPlan /\ plan.split_count >= 1
             /\ plan.total_amount \div plan.split_count >= DUST_THRESHOLD)
        => \A i \in PlanSplits : ~U64Lt(plan.splits[i].amount, DUST_THRESHOLD)

\* the split a call names, when the index is within the plan
CallIndexValid == call.split_index < plan.split_count /\ call.split_index < MAX_SPLITS

CallSplit == plan.splits[call.split_index]

Executed(p) == {i \in SplitIndexes : i < p.split_count /\ p.splits[i].executed_at # 0}

\* C2 (idempotent confirmation): a mark_split_executed call for a split index
\* that is already recorded as executed leaves executed_count as it was (the
\* call is refused as "already executed", so nothing of it is applied).
C2_IdempotentConfirm ==
    [][(HasPlan /\ call'.op = "confirm" /\ ~call'.aborted
                /\ call'.split_index \in Executed(plan))
          => plan'.executed_count = plan.executed_count]_vars

\* C3: in every state reached from a generated plan by propose, confirm and
\* cancel calls, executed_count is the number of splits i < split_count with
\* executed_at # 0, hence executed_count <= split_count.
C3_ExecutedCountIsNumberExecuted ==
    HasPlan => /\ plan.executed_count = Cardinality(Executed(plan))
               /\ plan.executed_count <= plan.split_count

\* C4: once cancel_withdrawal_plan has set status = Cancelled, no later
\* operation changes the plan (status, executed_count or any split); a confirm
\* arriving after the cancellation does not move the plan out of Cancelled.
C4_CancelledIsImmutable ==
    [][(HasPlan /\ plan.status = "Cancelled") => plan' = plan]_vars

\* C5 (status progression): once status is Completed it stays Completed under
\* every later propose, confirm and cancel call, and a cancel of a Completed
\* plan leaves the plan unchanged.
C5_CompletedStays ==
    [][(HasPlan /\ plan.status = "Completed")
          => /\ plan'.status = "Completed"
             /\ call'.op = "cancel" => plan' = plan]_vars

\* C6: status = Completed implies that every split i < split_count has a
\* recorded execution (executed_at # 0).
C6_CompletedMeansAllExecuted ==
    (HasPlan /\ plan.status = "Completed")
        => \A i \in PlanSplits : plan.splits[i].executed_at # 0

\* C7: execute_withdrawal_split reports the code of the first failing check in
\* the order invalid index (1), already executed (2), plan expired (3), too
\* early (4), insufficient balance (5), and success (0) exactly when none fails.
C7_FirstFailingCheck ==
    (HasPlan /\ call.op = "propose") =>
        LET invalid  == ~CallIndexValid
            executed == CallSplit.executed_at # 0
            expired  == now > plan.expires_at
            early    == now < CallSplit.scheduled_at - 60
            short    == call.vault_balance < CallSplit.amount
        IN  /\ (result.error_code = 1) = invalid
            /\ (result.error_code = 2) = (~invalid /\ executed)
            /\ (result.error_code = 3) = (~invalid /\ ~executed /\ expired)
            /\ (result.error_code = 4) = (~invalid /\ ~executed /\ ~expired /\ early)
            /\ (result.error_code = 5) =
                   (~invalid /\ ~executed /\ ~expired /\ ~early /\ short)
            /\ (result.error_code = 0) =
                   (~invalid /\ ~executed /\ ~expired /\ ~early /\ ~short)
            /\ result.success = (result.error_code = 0)
            /\ result.error_code \in 0..5

\* C7 witness: a proposal for an executed split of an expired plan, with an
\* empty vault: three checks fail and the first of them (2) is reported.
C7_Witness ==
    /\ HasPlan /\ call.op = "propose" /\ CallIndexValid
    /\ CallSplit.executed_at # 0
    /\ now > plan.expires_at
    /\ call.vault_balance < CallSplit.amount
    /\ result.error_code = 2

\* a proposal for a valid, unexecuted split of an unexpired plan, the vault
\* holding enough
ProposalOnlyScheduleCanFail ==
    /\ HasPlan /\ call.op = "propose" /\ CallIndexValid
    /\ CallSplit.executed_at = 0
    /\ now <= plan.expires_at
    /\ call.vault_balance >= CallSplit.amount

\* C8 (grace boundary): such a proposal returns TooEarly (4) exactly when
\* now < scheduled_at - 60, and succeeds when now = scheduled_at - 60.
C8_GraceBoundary ==
    ProposalOnlyScheduleCanFail =>
        /\ (result.error_code = 4) = (now < CallSplit.scheduled_at - 60)
        /\ (now = CallSplit.scheduled_at - 60) => (result.success /\ result.error_code = 0)

\* C8 witness: a proposal made exactly at scheduled_at - 60 has succeeded.
C8_Witness ==
    /\ ProposalOnlyScheduleCanFail
    /\ now = CallSplit.scheduled_at - 60
    /\ result.success

\* what execute_withdrawal_split returned agrees with the split it was asked for
ProposalResultMatchesSplit ==
    IF result.success
    THEN /\ CallIndexValid
         /\ result.destination = CallSplit.destination
         /\ result.amount = CallSplit.amount
         /\ result.executed_at = now
    ELSE /\ result.destination = ZeroKey
         /\ result.amount = 0

\* C9 (propose does not mutate the plan): a call of execute_withdrawal_split,
\* succeeding or failing, leaves the plan (its splits' executed_at and
\* tx_signature, executed_count and status) unchanged; on failure the returned
\* destination and amount are zero, on success they are the split's and
\* executed_at is the supplied now.
C9_ProposeLeavesPlan ==
    [][(HasPlan /\ call'.op = "propose")
          => (plan' = plan /\ ProposalResultMatchesSplit')]_vars

\* C9 witness: a proposal has succeeded on a plan that already has an executed
\* split, and that split is still the only one recorded.
C9_Witness ==
    /\ HasPlan /\ call.op = "propose" /\ result.success
    /\ plan.status = "InProgress" /\ plan.executed_count = 1
    /\ CallSplit.executed_at = 0 /\ CallSplit.tx_signature = ZeroSig
    /\ result.amount > 0 /\ result.destination # ZeroKey

\* C11 (no failing path): for every total, small ones such as 5 included, and
\* every count in [1, MAX_SPLITS], generate_split_amounts completes without u64
\* underflow or overflow; so generate_withdrawal_plan never stops on one.
C11_GenerationNeverOverflows ==
    call.op = "generate" => ~call.aborted

\* C12 (monotonic scheduling): in every generated plan scheduled_at is
\* non-decreasing in the split index, and the first split is not scheduled
\* before created_at.
C12_MonotonicSchedule ==
    HasPlan =>
        /\ \A i \in SplitIndexes :
              i + 1 < plan.split_count =>
                  plan.splits[i].scheduled_at <= plan.splits[i + 1].scheduled_at
        /\ plan.split_count > 0 => plan.splits[0].scheduled_at >= plan.created_at

\* a generated plan whose second delay is shorter than its first one, and one
\* whose delays are all zero
C12_Witness ==
    /\ HasPlan /\ call.op = "generate"
    /\ plan.split_count >= 2
    /\ plan.splits[1].delay_seconds < plan.splits[0].delay_seconds
    /\ plan.splits[0].scheduled_at < plan.splits[1].scheduled_at

\* C13 (split count in range): for 1 <= min_splits <= max_splits <= MAX_SPLITS
\* and every draw, the split count of the generated plan lies in
\* [min_splits, max_splits] and does not exceed MAX_SPLITS.
C13_SplitCountInRange ==
    HasPlan =>
        /\ plan.split_count \in config.min_splits..config.max_splits
        /\ plan.split_count <= MAX_SPLITS

\* the widest range, with the largest count drawn
C13_Witness ==
    /\ HasPlan /\ call.op = "generate"
    /\ config.min_splits = 1 /\ config.max_splits = MAX_SPLITS
    /\ plan.split_count = MAX_SPLITS

\* C14 (recorded exactly once): once splits[i].executed_at is nonzero, no later
\* operation changes splits[i].executed_at or splits[i].tx_signature, and
\* tx_signature is nonzero only for splits whose executed_at has been set.
C14_RecordedOnce ==
    [][HasPlan =>
          /\ \A i \in Executed(plan) :
                /\ plan'.splits[i].executed_at = plan.splits[i].executed_at
                /\ plan'.splits[i].tx_signature = plan.splits[i].tx_signature
          /\ \A i \in SplitIndexes :
                plan'.splits[i].tx_signature # ZeroSig => plan'.splits[i].executed_at # 0]_vars

\* C15 (cancellation by the owner only): cancel_withdrawal_plan changes the
\* plan exactly when all 32 bytes of the claimed owner equal the config's
\* owner_pubkey and status # Completed; it then sets status = Cancelled and
\* nothing else; a claimed owner differing in at least one byte, or a
\* Completed plan, leaves the plan as it was.
C15_CancelOwnerOnly ==
    [][(HasPlan /\ call'.op = "cancel") =>
          IF call'.owner = config.owner_pubkey /\ plan.status # "Completed"
          THEN plan' = [plan EXCEPT !.status = "Cancelled"]
          ELSE plan' = plan]_vars

\* C15 witness: a cancel by a key that differs from the owner's in the last
\* byte only has left a Pending or InProgress plan as it was.
C15_Witness ==
    /\ HasPlan /\ call.op = "cancel"
    /\ call.owner # config.owner_pubkey
    /\ \A i \in 0..(KEY_LEN - 2) : call.owner[i] = config.owner_pubkey[i]
    /\ plan.status \in {"Pending", "InProgress"}

\* C16 (executed_count never decremented): along every sequence of propose,
\* confirm and cancel calls, executed_count (8 bits) after each call is >= the
\* one before it, and a cancel leaves every executed split's record untouched.
C16_ExecutedCountNeverDecremented ==
    [][HasPlan =>
          /\ plan'.executed_count >= plan.executed_count
          /\ call'.op = "cancel" =>
                \A i \in Executed(plan) : plan'.splits[i] = plan.splits[i]]_vars

\* C17 (a cancelled plan is not processed): for a plan with status = Cancelled,
\* execute_withdrawal_split does not return success, whatever the split index,
\* the time and the balance.
C17_CancelledNotProcessed ==
    (HasPlan /\ call.op = "propose" /\ plan.status = "Cancelled") => ~result.success

\* C18 (ordering guarantee): mark_split_executed marks a split index i as
\* executed only after an execute_withdrawal_split call for the same index i
\* has reported success, and once i is marked executed no later
\* execute_withdrawal_split call for i is accepted.
C18_ConfirmAfterAcceptedProposal ==
    [][HasPlan =>
          /\ (/\ call'.op = "confirm" /\ ~call'.aborted
              /\ call'.split_index < plan.split_count /\ call'.split_index < MAX_SPLITS)
                => call'.split_index \in accepted
          /\ (call'.op = "propose" /\ call'.split_index \in Executed(plan))
                => ~result'.success]_vars

\* C19 (expiry transition): a Pending or InProgress plan moves to status
\* Expired when time passes its expires_at: once the time is past expires_at
\* and an executor operation has run on the plan, the plan is in one of the
\* terminal states Completed, Cancelled, Expired.
C19_ExpiredAfterExpiry ==
    (HasPlan /\ now > plan.expires_at /\ call.op \in {"propose", "confirm", "cancel"})
        => plan.status \in {"Completed", "Cancelled", "Expired"}

\* the unexecuted splits of the plan that are due at time t
ReadySplits(p, t) ==
    {i \in SplitIndexes :
        i < p.split_count /\ p.splits[i].executed_at = 0 /\ p.splits[i].scheduled_at <= t}

SmallestOf(S) == CHOOSE i \in S : \A j \in S : i <= j

\* C20 (next-split lookup, ready case): for every plan reachable from
\* generate_withdrawal_plan and every now, if some unexecuted split has
\* scheduled_at <= now then get_next_split returns (true, index, 0), index
\* being the smallest index of an unexecuted split with scheduled_at <= now.
C20_NextSplitReady ==
    (HasPlan /\ call.op = "next_split" /\ ReadySplits(plan, now) # {})
        => next_split = [found      |-> TRUE,
                         next_index |-> SmallestOf(ReadySplits(plan, now)),
                         wait_until |-> 0]

\* C20 witness: split 0 is executed, two later splits are due, and the lookup
\* has returned the first of them.
C20_Witness ==
    /\ HasPlan /\ call.op = "next_split"
    /\ 0 \in Executed(plan)
    /\ Cardinality(ReadySplits(plan, now)) >= 2
    /\ next_split.found /\ next_split.next_index = 1

\* the splits of the plan that are not executed
UnexecutedSplits(p) ==
    {i \in SplitIndexes : i < p.split_count /\ p.splits[i].executed_at = 0}

\* C21 (next-split lookup, not-ready case): when no unexecuted split has
\* scheduled_at <= now, get_next_split returns (false, 0, wait_until), where
\* wait_until is the scheduled_at of the first unexecuted split in index
\* order, and 0 when every split is executed.
C21_NextSplitNotReady ==
    (HasPlan /\ call.op = "next_split" /\ ReadySplits(plan, now) = {})
        => next_split =
              [found      |-> FALSE,
               next_index |-> 0,
               wait_until |-> IF UnexecutedSplits(plan) = {} THEN 0
                              ELSE plan.splits[SmallestOf(UnexecutedSplits(plan))].scheduled_at]

\* C22 (balance underflow safety): for every balance and pending plan,
\* query_encrypted_balance returns available = balance - pending_amount when
\* balance > pending_amount and available = 0 otherwise; available never
\* exceeds balance.
C22_AvailableNeverUnderflows ==
    (call.op = "query_balance" /\ ~call.aborted) =>
        LET balance == call.vault_balance
            pending == reply.info.pending_withdrawals
        IN  /\ reply.info.balance = balance
            /\ reply.info.available = IF balance > pending THEN balance - pending ELSE 0
            /\ reply.info.available >= 0
            /\ reply.info.available <= balance

\* C22 witness: a query with more pending than the balance holds has answered 0.
C22_Witness ==
    /\ call.op = "query_balance" /\ ~call.aborted
    /\ reply.info.pending_withdrawals > call.vault_balance
    /\ call.vault_balance > 0
    /\ reply.info.available = 0

\* the sum of the amounts of the unexecuted splits i < n of the plan
RECURSIVE sum_unexecuted(_, _)
sum_unexecuted(p, n) ==
    IF n = 0 THEN 0
    ELSE sum_unexecuted(p, n - 1)
         + (IF p.splits[n - 1].executed_at = 0 THEN p.splits[n - 1].amount ELSE 0)

\* the answer reports the unexecuted splits of the plan, or nothing
ReportsUnexecuted(report) ==
    IF report
    THEN /\ reply.info.pending_withdrawals = sum_unexecuted(plan, plan.split_count)
         /\ reply.info.pending_split_count = Cardinality(UnexecutedSplits(plan))
    ELSE /\ reply.info.pending_withdrawals = 0
         /\ reply.info.pending_split_count = 0

\* C23 as stated: for every supplied plan, query_encrypted_balance reports
\* pending_withdrawals equal to the sum of the amounts of the plan's splits
\* with executed_at = 0 and pending_split_count equal to their number; with no
\* plan both are 0.
C23_PendingIsUnexecuted ==
    (call.op = "query_balance" /\ ~call.aborted) => ReportsUnexecuted(HasPlan)

\* C23 amended: for a supplied plan with status Pending or InProgress,
\* pending_withdrawals is the sum of the amounts of its unexecuted splits and
\* pending_split_count their number; for a plan in any other status, and with
\* no plan, both are 0.
C23_PendingIsUnexecutedOfActivePlan ==
    (call.op = "query_balance" /\ ~call.aborted)
        => ReportsUnexecuted(HasPlan /\ plan.status \in {"Pending", "InProgress"})

\* C23 witness: the query of an InProgress plan with one split executed and
\* one not has reported the one that is not.
C23_Witness ==
    /\ call.op = "query_balance" /\ ~call.aborted
    /\ HasPlan /\ plan.status = "InProgress"
    /\ Executed(plan) # {} /\ UnexecutedSplits(plan) # {}
    /\ reply.info.pending_split_count = 1
    /\ reply.info.pending_withdrawals > 0

\* the slots of the array that hold a Completed plan
CompletedSlots(plans) ==
    {i \in HistoryIndexes : plans[i] # NoPlan /\ plans[i].status = "Completed"}

\* the largest executed_at of the plan's splits
LatestExecution(p) ==
    LET times == {p.splits[i].executed_at : i \in {j \in SplitIndexes : j < p.split_count}}
    IN  IF times = {} THEN 0 ELSE CHOOSE t \in times : \A u \in times : u <= t

SummaryOf(p) ==
    [plan_id |-> p.plan_id, total_amount |-> p.total_amount,
     split_count |-> p.split_count, created_at |-> p.created_at,
     completed_at |-> LatestExecution(p)]

\* C24: query_withdrawal_history returns, in input order, the summaries of
\* exactly the Completed plans among the first ones scanned, at most
\* min(limit, 10) of them; no plan with another status appears, and with
\* limit = 0 the output holds no entry.
C24_HistoryIsCompletedPlans ==
    call.op = "query_history" =>
        LET plans   == reply.plans
            done    == CompletedSlots(plans)
            rank(i) == Cardinality({j \in done : j < i})
            kept    == {i \in done : rank(i) < reply.limit}
        IN  /\ Cardinality(kept) <= reply.limit
            /\ Cardinality(kept) <= HISTORY_SLOTS
            /\ \A i \in kept : reply.history[rank(i)] = SummaryOf(plans[i])
            /\ \A k \in HistoryIndexes :
                  k >= Cardinality(kept) => reply.history[k] = DefaultHistoryEntry

\* C24 witness: the limit has cut the output short of the Completed plans,
\* and a plan that is not Completed was scanned before the last entry.
C24_Witness ==
    /\ call.op = "query_history"
    /\ reply.limit = 3
    /\ Cardinality(CompletedSlots(reply.plans)) > 3
    /\ 0 \notin CompletedSlots(reply.plans)
    /\ 1 \notin CompletedSlots(reply.plans)
    /\ reply.history[2] # DefaultHistoryEntry
    /\ reply.history[3] = DefaultHistoryEntry

\* the validation rules of a configuration
ValidationRules(cfg) ==
    /\ 1 <= cfg.destination_count /\ cfg.destination_count <= MAX_DESTINATIONS
    /\ 1 <= cfg.min_splits /\ cfg.min_splits <= cfg.max_splits
    /\ cfg.max_splits <= MAX_SPLITS
    /\ MIN_DELAY_FLOOR_SECONDS <= cfg.min_delay_seconds
    /\ cfg.min_delay_seconds <= cfg.max_delay_seconds
    /\ cfg.max_delay_seconds <= MAX_DELAY_CEILING_SECONDS

\* C25: store_private_config reports success exactly when all validation
\* rules hold: 1 <= destination_count <= MAX_DESTINATIONS, 1 <= min_splits <=
\* max_splits <= MAX_SPLITS and MIN_DELAY_FLOOR <= min_delay_seconds <=
\* max_delay_seconds <= MAX_DELAY_CEILING; one violated rule gives success = false.
C25_StoreValidates ==
    call.op = "store" => (reply.stored.success = ValidationRules(reply.submitted))

\* C25 witness: a configuration whose only violated rule is the delay ceiling
\* has been refused.
C25_Witness ==
    /\ call.op = "store"
    /\ ~reply.stored.success
    /\ reply.submitted.max_delay_seconds = MAX_DELAY_CEILING_SECONDS + 1
    /\ ValidationRules([reply.submitted EXCEPT !.max_delay_seconds = MAX_DELAY_CEILING_SECONDS])

ConfigOps == {"update", "add", "remove", "rotate"}

\* C26 (configuration invariant): starting from a configuration that passes
\* validation, after any sequence of update_private_config, add_destination,
\* remove_destination and rotate_destinations calls, accepted or rejected,
\* the configuration still satisfies the validation rules.
C26_ConfigStaysValid == ValidationRules(config)

\* C26 witness: an accepted update that refused some of its fields, on a
\* configuration that earlier operations had already changed.
C26_Witness ==
    /\ call.op = "update" /\ ~call.aborted /\ reply.success
    /\ config.version = MaxConfigVersion
    /\ reply.given.new_max_splits = Some(MAX_SPLITS + 1)
    /\ reply.given.new_min_splits = Some(3)
    /\ config.min_splits = 3

\* C27 (version is a monotonic counter): every accepted update_private_config,
\* add_destination, remove_destination and rotate_destinations call yields a
\* version strictly greater than before, old version + 1, and stamps
\* updated_at with the supplied time, for every starting version of the
\* 8-bit field: there is no silent wrap-around.
C27_VersionMonotonic ==
    [][(call'.op \in ConfigOps /\ ~call'.aborted /\ reply'.success)
          => /\ config'.version = config.version + 1
             /\ config'.version > config.version
             /\ config'.updated_at = now]_vars

\* C28 (remove_destination): by the owner, with a valid index idx, on a
\* configuration with destination_count >= 2, remove_destination deletes
\* exactly the destination at idx: the entries before idx are unchanged, each
\* entry after idx moves down by one keeping its order, the last slot of the
\* array, vacated by the shift, is zeroed, and destination_count decreases by 1.
C28_RemoveShifts ==
    [][(/\ call'.op = "remove" /\ ~call'.aborted
        /\ call'.owner = config.owner_pubkey
        /\ reply'.given < config.destination_count
        /\ config.destination_count >= 2)
          => LET idx == reply'.given
             IN  /\ reply'.success
                 /\ \A i \in DestinationIndexes :
                       config'.destinations[i] =
                          IF i < idx THEN config.destinations[i]
                          ELSE IF i + 1 \in DestinationIndexes THEN config.destinations[i + 1]
                          ELSE ZeroKey
                 /\ config'.destination_count = config.destination_count - 1
                 /\ config' = [config EXCEPT !.destinations = config'.destinations,
                                             !.destination_count = config'.destination_count,
                                             !.updated_at = config'.updated_at,
                                             !.version = config'.version]]_vars

\* C28 witness: index 1 has been removed from the three destinations
\* [A, B, C], leaving [A, C] with count 2.
C28_Witness ==
    /\ call.op = "remove" /\ ~call.aborted /\ reply.success /\ reply.given = 1
    /\ config.destination_count = 2
    /\ config.destinations[0] = Destinations[0]
    /\ config.destinations[1] = Destinations[2]
    /\ config.destinations[2] = ZeroKey

\* the reason a configuration operation has to refuse the call, 0 if none
RefusalOf(op, given, owner) ==
    IF owner # config.owner_pubkey THEN 1
    ELSE IF op = "add" /\ config.destination_count >= MAX_DESTINATIONS THEN 2
    ELSE IF op = "remove" /\ given >= config.destination_count THEN 3
    ELSE IF op = "remove" /\ config.destination_count <= 1 THEN 4
    ELSE IF op = "rotate" /\ (given[2] = 0 \/ given[2] > MAX_DESTINATIONS) THEN 5
    ELSE 0

\* C29 (rejected operations): update_private_config, add_destination,
\* remove_destination and rotate_destinations refuse a call of a non-owner, an
\* add at the destination limit, a removal with an index out of range or of
\* the last destination, and a rotation with an invalid count; a refused call
\* returns the input configuration unchanged in every field, version and
\* updated_at included, with a nonzero error_code, and rotate_destinations
\* replaces destinations and count together or not at all.
C29_RejectedChangesNothing ==
    [][(call'.op \in ConfigOps /\ ~call'.aborted)
          => /\ reply'.success = (RefusalOf(call'.op, reply'.given, call'.owner) = 0)
             /\ ~reply'.success
                   => /\ reply'.new_config = config
                      /\ config' = config
                      /\ reply'.error_code # 0
                      /\ reply'.error_code = RefusalOf(call'.op, reply'.given, call'.owner)
             /\ call'.op = "rotate"
                   => \/ /\ config'.destinations = reply'.given[1]
                         /\ config'.destination_count = reply'.given[2]
                      \/ /\ config'.destinations = config.destinations
                         /\ config'.destination_count = config.destination_count]_vars

\* C29 witness: the owner's rotation to a different destination set has been
\* refused for its count.
C29_Witness ==
    /\ call.op = "rotate" /\ ~call.aborted
    /\ call.owner = config.owner_pubkey
    /\ ~reply.success /\ reply.error_code = 5
    /\ reply.given[1] # config.destinations

\* the value of a field after a patch: the patched value if one is given and
\* its range rule holds, the old value otherwise
Patched(old, opt, rule(_)) ==
    IF opt # None /\ rule(opt[1]) THEN opt[1] ELSE old

\* the fields of a patch that are given and refused
RefusedFields(cfg, upd) ==
    {f \in {"count", "min_splits", "max_splits", "min_delay", "max_delay"} :
        CASE f = "count" ->
                 /\ upd.new_destination_count # None
                 /\ cfg.destination_count # upd.new_destination_count[1]
          [] f = "min_splits" ->
                 /\ upd.new_min_splits # None
                 /\ cfg.min_splits # upd.new_min_splits[1]
          [] f = "max_splits" ->
                 /\ upd.new_max_splits # None
                 /\ cfg.max_splits # upd.new_max_splits[1]
          [] f = "min_delay" ->
                 /\ upd.new_min_delay_seconds # None
                 /\ cfg.min_delay_seconds # upd.new_min_delay_seconds[1]
          [] f = "max_delay" ->
                 /\ upd.new_max_delay_seconds # None
                 /\ cfg.max_delay_seconds # upd.new_max_delay_seconds[1]}

\* C30 (field-by-field rejection): update_private_config by the owner reports
\* success whatever the patch; each patched field whose new value violates its
\* range rule (count in 1..MAX_DESTINATIONS; 1 <= min_splits <= max_splits;
\* min_splits <= max_splits <= MAX_SPLITS; floor <= min_delay <= max_delay;
\* min_delay <= max_delay <= ceiling, each against the configuration as the
\* call has it when it reaches the field) keeps its old value, and every other
\* patched field takes its new value.
C30_FieldByField ==
    [][(/\ call'.op = "update" /\ ~call'.aborted
        /\ call'.owner = config.owner_pubkey)
          => LET upd == reply'.given
                 InRange1(v) == v > 0 /\ v <= MAX_DESTINATIONS
                 MinSplitsRule(v) == v > 0 /\ v <= config.max_splits
                 MaxSplitsRule(v) == v >= config'.min_splits /\ v <= MAX_SPLITS
                 MinDelayRule(v) == v >= MIN_DELAY_FLOOR_SECONDS
                                    /\ v <= config.max_delay_seconds
                 MaxDelayRule(v) == v >= config'.min_delay_seconds
                                    /\ v <= MAX_DELAY_CEILING_SECONDS
                 Always(v) == TRUE
             IN  /\ reply'.success /\ reply'.error_code = 0
                 /\ reply'.new_config = config'
                 /\ config'.destinations =
                       Patched(config.destinations, upd.new_destinations, Always)
                 /\ config'.destination_count =
                       Patched(config.destination_count, upd.new_destination_count, InRange1)
                 /\ config'.min_splits =
                       Patched(config.min_splits, upd.new_min_splits, MinSplitsRule)
                 /\ config'.max_splits =
                       Patched(config.max_splits, upd.new_max_splits, MaxSplitsRule)
                 /\ config'.min_delay_seconds =
                       Patched(config.min_delay_seconds, upd.new_min_delay_seconds,
                               MinDelayRule)
                 /\ config'.max_delay_seconds =
                       Patched(config.max_delay_seconds, upd.new_max_delay_seconds,
                               MaxDelayRule)
                 /\ config'.auto_withdraw_enabled =
                       Patched(config.auto_withdraw_enabled,
                               upd.new_auto_withdraw_enabled, Always)
                 /\ config'.auto_withdraw_threshold =
                       Patched(config.auto_withdraw_threshold,
                               upd.new_auto_withdraw_threshold, Always)
                 /\ config'.owner_pubkey = config.owner_pubkey]_vars

\* C30 witness: the owner's patch of every field has been accepted with its
\* min_splits refused and its other fields applied.
C30_Witness ==
    /\ call.op = "update" /\ ~call.aborted /\ call.owner = config.owner_pubkey
    /\ reply.given = FullPatch /\ reply.success
    /\ "min_splits" \in RefusedFields(config, reply.given)
    /\ config.max_splits = FullPatch.new_max_splits[1]
    /\ config.destination_count = FullPatch.new_destination_count[1]
    /\ config.destinations = NewDestinations
    /\ config.auto_withdraw_enabled
    /\ config.auto_withdraw_threshold = FullPatch.new_auto_withdraw_threshold[1]

\* the fields the configuration hash is said to be computed over
HashProjection(cfg) ==
    [version |-> cfg.version,
     destination_count |-> cfg.destination_count,
     min_splits |-> cfg.min_splits,
     max_splits |-> cfg.max_splits,
     min_delay_seconds |-> cfg.min_delay_seconds,
     max_delay_seconds |-> cfg.max_delay_seconds,
     auto_withdraw_enabled |-> cfg.auto_withdraw_enabled,
     destination_first_bytes |-> [k \in DestinationIndexes |-> cfg.destinations[k][0]],
     owner_first_bytes |-> [i \in 0..7 |-> cfg.owner_pubkey[i]]]

\* C31 (config fingerprint): compute_config_hash returns the same 32 bytes for
\* equal configurations and for configurations that agree on the projection
\* (version, destination_count, split bounds, delay bounds, auto-withdraw flag,
\* first byte of each destination, first 8 bytes of the owner key), and
\* verify_config_hash(config, h) is true exactly when h equals
\* compute_config_hash(config).
C31_HashDeterministic ==
    /\ reply.op = "store"
          => /\ DOMAIN reply.stored.config_hash = 0..(KEY_LEN - 1)
             /\ \A other \in HashConfigs :
                   HashProjection(other) = HashProjection(reply.submitted)
                      => compute_config_hash(other) = reply.stored.config_hash
    /\ reply.op = "verify"
          => reply.matches = (reply.expected_hash = compute_config_hash(reply.submitted))

\* C31 witness: a hash that differs from the configuration's hash in its last
\* byte only has been refused.
C31_Witness ==
    /\ reply.op = "verify" /\ ~reply.matches
    /\ reply.expected_hash =
          KeyWith(compute_config_hash(reply.submitted), KEY_LEN - 1, 77)

\* what C32 says of a deposit: an overflow of total_sol_received + amount or
\* of deposit_count + 1 returns ArithmeticOverflow and the counter that would
\* overflow keeps its old value
DepositOverflowSurfaced ==
    call'.op = "record_deposit"
       => LET total_overflows == U64AddOverflows(chain.vault.total_sol_received, reply'.given)
              count_overflows == U64AddOverflows(chain.vault.deposit_count, 1)
          IN  /\ (total_overflows \/ count_overflows) => reply'.error = "ArithmeticOverflow"
              /\ total_overflows
                    => chain'.vault.total_sol_received = chain.vault.total_sol_received
              /\ count_overflows => chain'.vault.deposit_count = chain.vault.deposit_count
              /\ reply'.error = "Ok"
                    => /\ chain'.vault.total_sol_received =
                             chain.vault.total_sol_received + reply'.given
                       /\ chain'.vault.deposit_count = chain.vault.deposit_count + 1

\* C32 (overflow is surfaced), as stated: NameVault::record_deposit and
\* PrivacyPolicy::update return ArithmeticOverflow when total_sol_received +
\* amount, deposit_count + 1 or policy_nonce + 1 would exceed 64 bits, and the
\* counter that would overflow keeps its old value.
C32_OverflowSurfaced ==
    [][/\ DepositOverflowSurfaced
       /\ (/\ call'.op = "update_policy" /\ reply'.allowed
           /\ U64AddOverflows(chain.policy.policy_nonce, 1))
             => /\ reply'.error = "ArithmeticOverflow"
                /\ reply'.left.policy_nonce = chain.policy.policy_nonce
                /\ chain'.policy.policy_nonce = chain.policy.policy_nonce]_vars

\* C32, amended: PrivacyPolicy::update returns ArithmeticOverflow for
\* policy_nonce + 1 only on a policy that passes validate; on an invalid policy
\* it returns the validation error first.  In both cases policy_nonce keeps
\* its old value, and a successful update adds exactly 1.
C32_OverflowSurfacedAfterValidation ==
    [][/\ DepositOverflowSurfaced
       /\ (call'.op = "update_policy" /\ reply'.allowed)
             => LET checked == validate(apply_params(chain.policy, reply'.given))
                    overflows == U64AddOverflows(chain.policy.policy_nonce, 1)
                IN  /\ reply'.error = IF checked # "Ok" THEN checked
                                      ELSE IF overflows THEN "ArithmeticOverflow"
                                      ELSE "Ok"
                    /\ overflows
                          => /\ reply'.error # "Ok"
                             /\ reply'.left.policy_nonce = chain.policy.policy_nonce
                             /\ chain'.policy.policy_nonce = chain.policy.policy_nonce
                    /\ reply'.error = "Ok"
                          => chain'.policy.policy_nonce = chain.policy.policy_nonce + 1]_vars

\* C32 witness: an allowed update of a valid policy whose nonce is 2^64 - 1
\* has returned ArithmeticOverflow.
C32_Witness ==
    /\ reply.op = "update_policy" /\ reply.allowed
    /\ reply.error = "ArithmeticOverflow"
    /\ chain.policy.policy_nonce = -1

\* the configured destinations: the first destination_count of the array
ConfiguredDestinations == {config.destinations[k] : k \in 0..(config.destination_count - 1)}

\* C33 (destination selection): every split i < split_count of a generated
\* plan has one of the first destination_count configured destinations; with
\* split_count <= destination_count no configured position is used twice, and
\* with split_count > destination_count every configured position is used and
\* split i has the destination of split i mod destination_count.
C33_DestinationsCycle ==
    (plan # NoPlan /\ config.destination_count >= 1)
       => LET used == {i \in SplitIndexes : i < plan.split_count}
              dest(i) == plan.splits[i].destination
          IN  /\ \A i \in used : dest(i) \in ConfiguredDestinations
              /\ \A i, j \in used :
                    (i # j /\ i < config.destination_count /\ j < config.destination_count)
                       => dest(i) # dest(j)
              /\ plan.split_count >= config.destination_count
                    => {dest(i) : i \in used} = ConfiguredDestinations
              /\ \A i \in used : dest(i) = dest(i % config.destination_count)

\* C33 witness: a plan of five splits over three shuffled destinations, the
\* fourth split reusing the destination of the first.
C33_Witness ==
    /\ plan # NoPlan /\ plan.split_count = MAX_SPLITS /\ config.destination_count = 3
    /\ plan.splits[0].destination # config.destinations[0]
    /\ plan.splits[3].destination = plan.splits[0].destination
    /\ plan.splits[3].destination # plan.splits[1].destination

\* the sum of delay_seconds of splits 0..i of the plan
RECURSIVE DelaySum(_)
DelaySum(i) == IF i < 0 THEN 0 ELSE DelaySum(i - 1) + plan.splits[i].delay_seconds

\* C34 (delay schedule): in every generated plan each split's delay_seconds
\* lies in [min_delay_seconds, max_delay_seconds] and scheduled_at of split i
\* is created_at plus the sum of delay_seconds of splits 0..i; with
\* min_delay_seconds > 0 scheduled_at is strictly increasing.
C34_DelaySchedule ==
    plan # NoPlan
       => /\ \A i \in SplitIndexes :
                i < plan.split_count
                   => /\ plan.splits[i].delay_seconds >= config.min_delay_seconds
                      /\ plan.splits[i].delay_seconds <= config.max_delay_seconds
                      /\ plan.splits[i].scheduled_at = plan.created_at + DelaySum(i)
          /\ config.min_delay_seconds > 0
                => /\ plan.split_count > 0 => plan.splits[0].scheduled_at > plan.created_at
                   /\ \A i \in SplitIndexes :
                         i + 1 < plan.split_count
                            => plan.splits[i].scheduled_at < plan.splits[i + 1].scheduled_at

\* C34 witness: a plan over the range [300, 1800] with the delays 1800, 300
\* and 1800, its last split scheduled 3900 seconds after created_at.
C34_Witness ==
    /\ plan # NoPlan /\ plan.split_count = 3
    /\ config.min_delay_seconds = 300 /\ config.max_delay_seconds = 1800
    /\ plan.splits[0].delay_seconds = 1800
    /\ plan.splits[1].delay_seconds = 300
    /\ plan.splits[2].delay_seconds = 1800
    /\ plan.splits[2].scheduled_at = plan.created_at + 3900

\* C35 (initial plan state): a plan returned by generate_withdrawal_plan has
\* status Pending, executed_count 0, executed_at 0 and a zero tx_signature in
\* every split, total_amount equal to the requested amount, created_at = now,
\* expires_at = now + 604800, and a plan_id made of the first 8 entropy bytes
\* followed by the little-endian bytes of now.
C35_InitialPlanState ==
    (call.op = "generate" /\ ~call.aborted)
       => /\ plan # NoPlan
          /\ plan.status = "Pending"
          /\ plan.executed_count = 0
          /\ \A i \in SplitIndexes :
                /\ plan.splits[i].executed_at = 0
                /\ plan.splits[i].tx_signature = ZeroSig
          /\ plan.total_amount = call.vault_balance
          /\ plan.created_at = now
          /\ plan.expires_at = now + 604800
          /\ DOMAIN plan.plan_id = 0..15
          /\ \A i \in 0..7 :
                /\ plan.plan_id[i] = UserRandom[i]
                /\ plan.plan_id[8 + i] =
                      IF i < 4 THEN (now \div (256 ^ i)) % 256 ELSE 0  \* now < 2^32

\* C35 witness: a plan has been generated after the clock moved, with the
\* low byte of the time in byte 8 of its plan_id.
C35_Witness ==
    /\ call.op = "generate" /\ ~call.aborted /\ plan # NoPlan
    /\ now > Epoch
    /\ plan.created_at = now
    /\ plan.plan_id[8] = now % 256
    /\ plan.plan_id[9] # plan.plan_id[8]

\* C36 (frame of confirm): mark_split_executed with a valid index i changes
\* only splits[i].executed_at, splits[i].tx_signature, executed_count and
\* status: plan_id, the vault identifier, total_amount, split_count,
\* created_at, expires_at and every split's destination, amount, delay_seconds
\* and scheduled_at are unchanged, as is every field of the other splits; with
\* an index >= split_count the whole plan is returned unchanged.
C36_ConfirmFrame ==
    [][(call'.op = "confirm" /\ ~call'.aborted)
          => LET i == call'.split_index
             IN  IF i < plan.split_count
                 THEN /\ plan' = [plan EXCEPT
                                     !.splits[i].executed_at = plan'.splits[i].executed_at,
                                     !.splits[i].tx_signature = plan'.splits[i].tx_signature,
                                     !.executed_count = plan'.executed_count,
                                     !.status = plan'.status]
                      /\ plan'.plan_id = plan.plan_id
                      /\ plan'.vault_pubkey = plan.vault_pubkey
                      /\ plan'.total_amount = plan.total_amount
                      /\ plan'.split_count = plan.split_count
                      /\ plan'.created_at = plan.created_at
                      /\ plan'.expires_at = plan.expires_at
                      /\ \A k \in SplitIndexes :
                            /\ plan'.splits[k].destination = plan.splits[k].destination
                            /\ plan'.splits[k].amount = plan.splits[k].amount
                            /\ plan'.splits[k].delay_seconds = plan.splits[k].delay_seconds
                            /\ plan'.splits[k].scheduled_at = plan.splits[k].scheduled_at
                            /\ k # i => plan'.splits[k] = plan.splits[k]
                 ELSE plan' = plan]_vars

\* C36 witness: the second split of a plan has been marked executed with
\* signature 2 and the first split, marked before with signature 1, is as it was.
C36_Witness ==
    /\ call.op = "confirm" /\ ~call.aborted /\ plan # NoPlan
    /\ call.split_index = 1 /\ plan.split_count = 2
    /\ plan.splits[1].tx_signature = 2
    /\ plan.splits[1].executed_at = now
    /\ plan.splits[0].tx_signature = 1
    /\ plan.splits[1].amount > 0
    /\ plan.status = "Completed"

\* the first split of the plan that is not marked executed
FirstUnexecuted ==
    CHOOSE i \in UnexecutedSplits(plan) : \A k \in UnexecutedSplits(plan) : i <= k

\* vault balances offered to a propose that follows the lookup
HintBalances == {0, 1, 333333333, 500000000, 1000000000}

\* C37 (the lookup hint is sufficient for propose): when get_next_split returns
\* (true, i, _) at time now with now <= expires_at, execute_withdrawal_split(i,
\* now, vault_balance) succeeds for every vault_balance >= splits[i].amount;
\* when it returns (false, 0, w) with w # 0, a propose at time w for the first
\* unexecuted split does not return TooEarly (error 4).
C37_HintSufficient ==
    (call.op = "next_split" /\ plan # NoPlan)
       => /\ (next_split.found /\ now <= plan.expires_at)
                => \A vault_balance \in HintBalances :
                      ~U64Lt(vault_balance, plan.splits[next_split.next_index].amount)
                         => LET execution == execute_withdrawal_split(
                                                plan, next_split.next_index, now, vault_balance)
                            IN  /\ execution.success
                                /\ execution.amount = plan.splits[next_split.next_index].amount
          /\ (~next_split.found /\ next_split.wait_until # 0)
                => /\ next_split.next_index = 0
                   /\ UnexecutedSplits(plan) # {}
                   /\ \A vault_balance \in HintBalances :
                         execute_withdrawal_split(plan, FirstUnexecuted,
                                                  next_split.wait_until,
                                                  vault_balance).error_code # 4

\* C37 witness: after the first split was marked executed, the lookup at the
\* very second of the second split's schedule returns the second split, on a
\* plan that is not expired.
C37_Witness ==
    /\ call.op = "next_split" /\ plan # NoPlan
    /\ next_split.found /\ next_split.next_index = 1
    /\ plan.splits[0].executed_at # 0
    /\ plan.splits[1].scheduled_at = now
    /\ now <= plan.expires_at
    /\ \E vault_balance \in HintBalances : ~U64Lt(vault_balance, plan.splits[1].amount)

PlanCompleted ==
    plan # NoPlan /\ plan.status = "Completed" /\ plan.executed_count = plan.split_count

\* a generated plan is eventually Completed with every split executed, and a
\* Pending plan of two or more splits is InProgress before that
ProgressToCompletion ==
    /\ (plan # NoPlan /\ plan.split_count >= 1) ~> PlanCompleted
    /\ (plan # NoPlan /\ plan.split_count >= 2 /\ plan.status = "Pending")
          ~> (plan # NoPlan /\ plan.status = "InProgress"
                /\ plan.executed_count = 1 /\ plan.executed_count < plan.split_count)

\* C38 (progress to completion), as stated: with time advancing, a covering
\* vault balance, no cancellation and a driver that executes the split
\* reported by get_next_split (propose, then confirm once on success) while
\* now <= expires_at, weak fairness takes a generated plan to Completed with
\* executed_count = split_count, through InProgress when split_count >= 2.
C38_ProgressToCompletion == ProgressToCompletion

\* C38, amended: the same holds provided the clock does not pass expires_at
\* before the plan is Completed.
C38_ProgressBeforeExpiry ==
    [](plan # NoPlan => (now <= plan.expires_at \/ PlanCompleted))
       => ProgressToCompletion

\* C38 witness: the driver has confirmed the third split of a three-split
\* plan before its expiry and the plan is Completed.
C38_Witness ==
    /\ call.op = "confirm" /\ ~call.aborted /\ PlanCompleted
    /\ plan.split_count = 3 /\ plan.executed_count = 3
    /\ now <= plan.expires_at
    /\ \A i \in {0, 1, 2} : plan.splits[i].executed_at # 0

\* the configuration with every field of the patch applied
FullyPatched(cfg, upd) ==
    LET pick(field, opt) == IF opt # None THEN opt[1] ELSE field
    IN  [cfg EXCEPT
            !.destinations = pick(@, upd.new_destinations),
            !.destination_count = pick(@, upd.new_destination_count),
            !.min_splits = pick(@, upd.new_min_splits),
            !.max_splits = pick(@, upd.new_max_splits),
            !.min_delay_seconds = pick(@, upd.new_min_delay_seconds),
            !.max_delay_seconds = pick(@, upd.new_max_delay_seconds),
            !.auto_withdraw_enabled = pick(@, upd.new_auto_withdraw_enabled),
            !.auto_withdraw_threshold = pick(@, upd.new_auto_withdraw_threshold)]

\* C39 (update validates the resulting configuration): in update_private_config
\* by the owner, if the configuration obtained by applying every field of the
\* patch satisfies all validation rules, then every patched field takes its
\* new value, whatever the order in which the fields are checked.
C39_ResultingConfigValidated ==
    [][(/\ call'.op = "update" /\ ~call'.aborted
        /\ call'.owner = config.owner_pubkey
        /\ ValidationRules(FullyPatched(config, reply'.given)))
          => config' = [FullyPatched(config, reply'.given) EXCEPT
                           !.updated_at = config'.updated_at,
                           !.version = config'.version]]_vars

\* the sum of the amounts of the splits in S
RECURSIVE AmountOf(_)
AmountOf(S) ==
    IF S = {} THEN 0
    ELSE LET i == CHOOSE k \in S : TRUE
         IN  plan.splits[i].amount + AmountOf(S \ {i})

ExecutedSplits == {i \in SplitIndexes : i < plan.split_count /\ plan.splits[i].executed_at # 0}

\* completed_splits, status and withdrawn_amount follow the plan
MirrorsProgress ==
    /\ chain.withdrawal.completed_splits = plan.executed_count
    /\ chain.withdrawal.status = plan.status
    /\ chain.withdrawal.withdrawn_amount = AmountOf(ExecutedSplits)

\* C40 (the on-chain record mirrors the plan): with PendingWithdrawal
\* initialised from a generated plan and record_split_execution(amount of
\* split i, t) applied once for every accepted mark_split_executed(i, t) of
\* distinct indices, after every step completed_splits = executed_count, the
\* statuses agree, withdrawn_amount is the sum of the executed splits' amounts
\* and remaining_amount() is the sum of the unexecuted splits' amounts.
C40_RecordMirrorsPlan ==
    (plan # NoPlan /\ chain.withdrawal # NoWithdrawal)
       => /\ MirrorsProgress
          /\ remaining_amount(chain.withdrawal) = AmountOf(UnexecutedSplits(plan))

=============================================================================
